---------------------------- MODULE Spec2Model ----------------------------
(***************************************************************************)
(* goffi: the callback registry, the call entry gate, the invocation       *)
(* engines and the call interface compiler, as state machines.             *)
(***************************************************************************)
EXTENDS Integers, Naturals, Sequences, FiniteSets, TLC

(***************************************************************************)
(* Bounds of the model                                                     *)
(***************************************************************************)
\* number of host threads
NumThreads == 2
\* number of NewCallback / callbackWrap operations started in one behaviour
MaxOps == 3
\* how far below the capacity limit the nearly-full initial registry starts
NearLimit == 2
\* bits of the model's byte: every integer width of the program is scaled
\* by ByteBits/8, so an 8-byte word has 8 * ByteBits bits
ByteBits == 2
\* number of PrepareCallInterface calls made one after another
MaxCompiles == 1

Threads == 1..NumThreads

(***************************************************************************)
(* Program constants                                                       *)
(***************************************************************************)
maxCallbacks == 2000
entrySizeAMD64 == 5
entrySizeARM64 == 8
numFloatRegs == 8
numIntRegsAMD64 == 6
numIntRegsARM64 == 8

\* the platforms the Unix callback files are built for
CallbackPlatforms == {"unix_amd64", "unix_arm64"}

\* link-time addresses of the trampoline table (any address the linker picks)
TrampolineBases == {4096}

(***************************************************************************)
(* reflect.Value of the argument of NewCallback                            *)
(***************************************************************************)
SupportedKinds == {"int", "int8", "int16", "int32", "int64",
                   "uint", "uint8", "uint16", "uint32", "uint64",
                   "uintptr", "float32", "float64",
                   "ptr", "unsafeptr", "bool"}

\* A reflect.Value is a handle: 0 is the zero Value held by an unfilled
\* slot, the other handles name the values callers pass to NewCallback.
NoFunc == 0
Func(ins, outs) == [kind |-> "func", in |-> ins, out |-> outs]
ValueTable ==
  <<Func(<<"uint64", "uint64">>, <<"uint64">>),  \* 1: func(a, b uint64) uint64
    Func(<<"int">>, <<"int">>),                  \* 2: func(x int) int
    Func(<<"string">>, <<>>),                    \* 3: func(s string)
    Func(<<"int">>, <<"slice">>),                \* 4: func(x int) []byte
    Func(<<>>, <<"int", "int">>),                \* 5: func() (int, int)
    [kind |-> "nil", in |-> <<>>, out |-> <<>>], \* 6: NewCallback(nil)
    [kind |-> "int", in |-> <<>>, out |-> <<>>]>> \* 7: NewCallback(42)
\* closures with supported signatures
GoodFuncs == {1, 2}
FnValues == 1..Len(ValueTable)
TypeOf(v) == ValueTable[v]

\* closure placed in slot k of a registry that was filled before the
\* behaviour starts (k registrations of closures 1, 2, 1, 2, ...)
PrefillFunc(k) == (k % 2) + 1

VARIABLES
  platform,            \* GOOS/GOARCH the package was built for
  trampolineBaseAddr,  \* address of the first trampoline entry
  mu,                  \* callbacks.mu: 0 when free, else the holder
  funcs,               \* callbacks.funcs
  count,               \* callbacks.count
  pc,                  \* position of each thread
  val,                 \* NewCallback: val (reflect.ValueOf(fn))
  idx,                 \* NewCallback: idx
  cbArgs,              \* callbackWrap: a (index, frame, result)
  cbFn,                \* callbackWrap: fn
  outcome,             \* what the last operation of each thread returned
  count0,              \* history: callbacks.count in the initial state
  regs,                \* history: successful registrations, in order
  opsLeft,             \* operations that may still be started
  started,             \* threads that have started an operation
  descs,               \* the type descriptors, by address
  cif,                 \* the CallInterface the callers share
  call,                \* CallFunctionContext / Execute: locals of each thread
  rbuf,                \* the result buffer of each thread
  callOut,             \* what the last call of each thread returned
  descs0,              \* history: descs when compilation finished
  prep,                \* PrepareCallInterface: arguments and position
  shape,               \* layout and classification of one struct: what was
                       \* applied to it and what it returned
  comp,                \* concurrent compilations: locals of each thread
  dec,                 \* the argument loop of callbackWrap on one signature
  inClosure            \* threads whose closure, run by callbackWrap, is inside
                       \* a NewCallback call of its own

cbVars == <<platform, trampolineBaseAddr, mu, funcs, count, pc, val, idx,
            cbArgs, cbFn, outcome, count0, regs, opsLeft, started, inClosure>>

ffiVars == <<descs, cif, call, rbuf, callOut, descs0, prep, shape, comp, dec>>

vars == <<cbVars, ffiVars>>

(***************************************************************************)
(* Machine words                                                           *)
(***************************************************************************)
RECURSIVE Pow2(_)
Pow2(n) == IF n = 0 THEN 1 ELSE 2 * Pow2(n - 1)

\* number of values of an integer that is nbytes wide
Range(nbytes) == Pow2(nbytes * ByteBits)
Modulus == Range(8)
\* uintptr(x), uint64(x): x reduced to 8 bytes
ToUintptr(x) == x % Modulus
\* the low nbytes of a word read as an unsigned integer
ZeroExt(w, nbytes) == w % Range(nbytes)
\* the low nbytes of a word read as a signed integer
SignExt(w, nbytes) ==
  LET u == w % Range(nbytes)
  IN  IF 2 * u >= Range(nbytes) THEN u - Range(nbytes) ELSE u

\* math.Float64bits / math.Float64frombits on the model's floats, which are
\* the naturals below Range(4): the pattern is the complement of the value
Float64bits(f) == Modulus - 1 - f
Float64frombits(w) == Modulus - 1 - w
\* float32(f64): values a float32 cannot hold collapse to the largest one
Float32Of(f) == IF f < Range(4) THEN f ELSE Range(4) - 1

(***************************************************************************)
(* Callback registry: ffi/callback_unix.go, ffi/callback_arm64.go          *)
(***************************************************************************)
entrySize == IF platform = "unix_amd64" THEN entrySizeAMD64 ELSE entrySizeARM64
numIntRegs == IF platform = "unix_amd64" THEN numIntRegsAMD64 ELSE numIntRegsARM64

\* mutant: the entry after the one that was filled
trampolineEntryAddr_OffByOne(i) ==
  trampolineBaseAddr + ToUintptr((i + 1) * entrySize)

\* trampolineEntryAddr (amd64) / callbackasmAddr (arm64)
trampolineEntryAddr(i) == trampolineBaseAddr + ToUintptr(i * entrySize)

\* the index the trampoline entry at address ptr hands to callbackWrap
callbackIndex(ptr) == (ptr - trampolineBaseAddr) \div entrySize

\* validateCallbackSignature: TRUE when it returns without panicking
validateCallbackSignature(typ) ==
  /\ \A i \in 1..Len(typ.in) : typ.in[i] \in SupportedKinds
  /\ Len(typ.out) <= 1
  /\ \A i \in 1..Len(typ.out) : typ.out[i] \in SupportedKinds

\* mutant: the limit test lets one registration too many through
LimitReached_Late(c) == c > maxCallbacks

\* if callbacks.count >= maxCallbacks
LimitReached(c) == c >= maxCallbacks

\* The array callbacks.funcs is kept sparse: slots below fs.prefix were
\* filled before the behaviour started (slot k with PrefillFunc(k)), fs.over
\* holds the slots written since, every other slot holds the zero Value.
Slots == 0..(maxCallbacks - 1)
FuncAt(fs, k) ==
  IF k \in DOMAIN fs.over THEN fs.over[k]
  ELSE IF k < fs.prefix THEN PrefillFunc(k) ELSE NoFunc

\* mutant: a registration recycles the first slot
StoreFunc_Recycle(fs, i, v) == [fs EXCEPT !.over = (0 :> v) @@ fs.over]

\* callbacks.funcs[idx] = val
StoreFunc(fs, i, v) == [fs EXCEPT !.over = (i :> v) @@ fs.over]

\* mutant: the dispatcher reads the most recently filled slot
FetchFunc_Latest(fs, i) == FuncAt(fs, IF count > 0 THEN count - 1 ELSE 0)

\* fn := callbacks.funcs[a.index]
FetchFunc(fs, i) == FuncAt(fs, i)

\* the register frames a native caller presents: position p of frame s
Frames == {1, 2}
FrameWord(s, p) == ToUintptr(s * 7 + p + 1)

IntKinds == {"int", "int8", "int16", "int32", "int64"}
UintKinds == {"uint", "uint8", "uint16", "uint32", "uint64", "uintptr"}
KindBytes(k) ==
  CASE k \in {"int8", "uint8", "bool"} -> 1
    [] k \in {"int16", "uint16"} -> 2
    [] k \in {"int32", "uint32", "float32"} -> 4
    [] OTHER -> 8

\* the Go value callbackWrap builds from frame word w for a parameter of
\* kind k (floats as model floats, bool as 0 or 1, pointers as addresses)
DecodeWord(k, w) ==
  CASE k = "float32" -> Float32Of(Float64frombits(w))
    [] k = "float64" -> Float64frombits(w)
    [] k = "bool" -> IF w # 0 THEN 1 ELSE 0
    [] k \in {"ptr", "unsafeptr"} -> w
    [] k \in IntKinds -> SignExt(w, KindBytes(k))
    [] OTHER -> ZeroExt(w, KindBytes(k))

\* mutant: a parameter spilled to the stack takes the slot that follows the
\* registers of its own class, floats and integers counted apart
RECURSIVE DecodeArgs_SpillPerClass(_, _, _, _, _, _)
DecodeArgs_SpillPerClass(ins, s, i, floatIdx, intIdx, stackIdx) ==
  IF i > Len(ins) THEN <<>>
  ELSE IF ins[i] \in {"float32", "float64"}
       THEN <<DecodeWord(ins[i], FrameWord(s,
                IF floatIdx < numFloatRegs THEN floatIdx
                ELSE stackIdx + floatIdx - numFloatRegs))>> \o
            DecodeArgs_SpillPerClass(ins, s, i + 1, floatIdx + 1, intIdx, stackIdx)
       ELSE <<DecodeWord(ins[i], FrameWord(s,
                IF intIdx < numIntRegs THEN numFloatRegs + intIdx
                ELSE stackIdx + intIdx - numIntRegs))>> \o
            DecodeArgs_SpillPerClass(ins, s, i + 1, floatIdx, intIdx + 1, stackIdx)

\* the argument loop of callbackWrap from parameter i on
RECURSIVE DecodeArgs(_, _, _, _, _, _)
DecodeArgs(ins, s, i, floatIdx, intIdx, stackIdx) ==
  IF i > Len(ins) THEN <<>>
  ELSE IF ins[i] \in {"float32", "float64"}
       THEN IF floatIdx < numFloatRegs
            THEN <<DecodeWord(ins[i], FrameWord(s, floatIdx))>> \o
                 DecodeArgs(ins, s, i + 1, floatIdx + 1, intIdx, stackIdx)
            ELSE <<DecodeWord(ins[i], FrameWord(s, stackIdx))>> \o
                 DecodeArgs(ins, s, i + 1, floatIdx, intIdx, stackIdx + 1)
       ELSE IF intIdx < numIntRegs
            THEN <<DecodeWord(ins[i], FrameWord(s, numFloatRegs + intIdx))>> \o
                 DecodeArgs(ins, s, i + 1, floatIdx, intIdx + 1, stackIdx)
            ELSE <<DecodeWord(ins[i], FrameWord(s, stackIdx))>> \o
                 DecodeArgs(ins, s, i + 1, floatIdx, intIdx, stackIdx + 1)

\* fn.Call(args) for the closures of the model: the value each one returns
CallClosure(f, args) ==
  CASE f = 1 -> <<ZeroExt(args[1] + args[2], 8)>>
    [] f = 2 -> <<SignExt(args[1] * 3, 8)>>
    [] OTHER -> <<>>

\* the marshalling of the return value into a.result
EncodeResult(f, results) ==
  IF Len(results) = 0 THEN 0
  ELSE CASE TypeOf(f).out[1] \in {"float32", "float64"} -> Float64bits(results[1])
         [] OTHER -> ToUintptr(results[1])

\* parameter lists of the closures native code calls back: nf floating
\* and ni integer parameters, one class first or the two alternating
MaxParamsPerClass == 10
ParamCounts == {0, 1, 6, 7, 8, 9, MaxParamsPerClass}
ParamOrders == {"floats", "ints", "alternate"}
ParamKind(order, nf, ni, i) ==
  CASE order = "floats" -> IF i <= nf THEN "float64" ELSE "int64"
    [] order = "ints" -> IF i <= ni THEN "uintptr" ELSE "float64"
    [] OTHER -> LET both == IF nf < ni THEN nf ELSE ni
                IN  IF i <= 2 * both
                    THEN IF i % 2 = 1 THEN "float64" ELSE "int64"
                    ELSE IF nf > ni THEN "float32" ELSE "ptr"
DecodeSignatures ==
  { [i \in 1..(nf + ni) |-> ParamKind(o, nf, ni, i)] :
      <<o, nf, ni>> \in ParamOrders \X ParamCounts \X ParamCounts }

NoDec == [pc |-> "idle", ins |-> <<>>, frame |-> 0, args |-> <<>>]

(***************************************************************************)
(* Results of an operation, as its caller sees them                        *)
(***************************************************************************)
NoOutcome == [op |-> "none", how |-> "none", value |-> 0, fn |-> NoFunc,
              index |-> 0, frame |-> 0]
Panicked(o, msg) == [op |-> o, how |-> "panic:" \o msg, value |-> 0,
                     fn |-> NoFunc, index |-> 0, frame |-> 0]

\* the closure the registration of slot k was given
RegisteredAt(k) ==
  IF k < count0 THEN PrefillFunc(k)
  ELSE IF \E n \in 1..Len(regs) : regs[n].idx = k
       THEN regs[CHOOSE n \in 1..Len(regs) : regs[n].idx = k].val
       ELSE NoFunc

\* A thread starts an operation while the budget lasts.  Threads are
\* interchangeable, so thread t starts its first operation only after
\* every thread below t has started one.
StartOp(t) ==
  /\ pc[t] = "idle"
  /\ opsLeft > 0
  /\ \A u \in Threads : u < t => u \in started
  /\ opsLeft' = opsLeft - 1
  /\ started' = started \cup {t}

\* entry addresses native code can hold: those NewCallback has returned
IssuedAddrs ==
  { regs[n].addr : n \in 1..Len(regs) } \cup
  { trampolineEntryAddr(k) : k \in {j \in {0, count0 - 1} : j >= 0 /\ j < count0} }

InitCallbacks ==
  /\ platform \in CallbackPlatforms
  /\ trampolineBaseAddr \in TrampolineBases
  /\ count0 \in {0, maxCallbacks - NearLimit}
  /\ count = count0
  /\ funcs = [prefix |-> count0, over |-> [k \in {} |-> NoFunc]]
  /\ mu = 0
  /\ pc = [t \in Threads |-> "idle"]
  /\ val = [t \in Threads |-> NoFunc]
  /\ idx = [t \in Threads |-> 0]
  /\ cbArgs = [t \in Threads |-> [index |-> 0, frame |-> 0, result |-> 0]]
  /\ cbFn = [t \in Threads |-> NoFunc]
  /\ outcome = [t \in Threads |-> NoOutcome]
  /\ regs = <<>>
  /\ opsLeft = MaxOps
  /\ started = {}
  /\ inClosure = {}

\* mutant: a slot is claimed before the argument is checked
NewCallbackEnter_ClaimFirst(t) ==
  /\ UNCHANGED ffiVars
  /\ StartOp(t)
  /\ \E fn \in FnValues :
       IF TypeOf(fn).kind # "func" \/ ~validateCallbackSignature(TypeOf(fn))
       THEN /\ outcome' = [outcome EXCEPT ![t] =
                             Panicked("register", "unsupported callback signature")]
            /\ mu = 0
            /\ count < maxCallbacks
            /\ count' = count + 1
            /\ UNCHANGED <<pc, val>>
       ELSE /\ val' = [val EXCEPT ![t] = fn]
            /\ pc' = [pc EXCEPT ![t] = "nc_lock"]
            /\ outcome' = [outcome EXCEPT ![t] = NoOutcome]
            /\ UNCHANGED count
  /\ UNCHANGED <<inClosure, platform, trampolineBaseAddr, mu, funcs, idx, cbArgs,
                 cbFn, count0, regs>>

\* NewCallback up to the mutex: the nil, kind and signature checks
NewCallbackEnter(t) ==
  /\ UNCHANGED ffiVars
  /\ StartOp(t)
  /\ \E fn \in FnValues :
       IF TypeOf(fn).kind = "nil"
       THEN /\ outcome' = [outcome EXCEPT ![t] =
                             Panicked("register", "ffi: callback function must not be nil")]
            /\ UNCHANGED <<pc, val>>
       ELSE IF TypeOf(fn).kind # "func"
       THEN /\ outcome' = [outcome EXCEPT ![t] =
                             Panicked("register", "ffi: callback must be a function")]
            /\ UNCHANGED <<pc, val>>
       ELSE IF ~validateCallbackSignature(TypeOf(fn))
       THEN /\ outcome' = [outcome EXCEPT ![t] =
                             Panicked("register", "unsupported callback signature")]
            /\ UNCHANGED <<pc, val>>
       ELSE /\ val' = [val EXCEPT ![t] = fn]
            /\ pc' = [pc EXCEPT ![t] = "nc_lock"]
            /\ outcome' = [outcome EXCEPT ![t] = NoOutcome]
  /\ UNCHANGED <<inClosure, platform, trampolineBaseAddr, mu, funcs, count, idx, cbArgs,
                 cbFn, count0, regs>>

\* mutant: registration proceeds without waiting for the mutex
NewCallbackLock_NoWait(t) ==
  /\ UNCHANGED ffiVars
  /\ pc[t] = "nc_lock"
  /\ mu' = t
  /\ pc' = [pc EXCEPT ![t] = "nc_check"]
  /\ UNCHANGED <<inClosure, platform, trampolineBaseAddr, funcs, count, val, idx, cbArgs,
                 cbFn, outcome, count0, regs, opsLeft, started>>

\* callbacks.mu.Lock()
NewCallbackLock(t) ==
  /\ UNCHANGED ffiVars
  /\ pc[t] = "nc_lock"
  /\ mu = 0
  /\ mu' = t
  /\ pc' = [pc EXCEPT ![t] = "nc_check"]
  /\ UNCHANGED <<inClosure, platform, trampolineBaseAddr, funcs, count, val, idx, cbArgs,
                 cbFn, outcome, count0, regs, opsLeft, started>>

\* mutant: the panic leaves the function with the mutex locked
NewCallbackCheck_PanicKeepsMutex(t) ==
  /\ UNCHANGED ffiVars
  /\ pc[t] = "nc_check"
  /\ IF LimitReached(count)
     THEN /\ pc' = [pc EXCEPT ![t] = "idle"]
          /\ outcome' = [outcome EXCEPT ![t] =
                Panicked("register", "ffi: callback limit reached (2000 callbacks maximum)")]
          /\ inClosure' = inClosure \ {t}
          /\ UNCHANGED <<idx, mu>>
     ELSE /\ idx' = [idx EXCEPT ![t] = count]
          /\ pc' = [pc EXCEPT ![t] = "nc_store"]
          /\ UNCHANGED <<mu, outcome, inClosure>>
  /\ UNCHANGED <<platform, trampolineBaseAddr, funcs, count, val, cbArgs,
                 cbFn, count0, regs, opsLeft, started>>

\* the capacity check; the panic runs the deferred Unlock
NewCallbackCheck(t) ==
  /\ UNCHANGED ffiVars
  /\ pc[t] = "nc_check"
  /\ IF LimitReached(count)
     THEN /\ mu' = 0
          /\ pc' = [pc EXCEPT ![t] = "idle"]
          /\ outcome' = [outcome EXCEPT ![t] =
                Panicked("register", "ffi: callback limit reached (2000 callbacks maximum)")]
          /\ inClosure' = inClosure \ {t}
          /\ UNCHANGED idx
     ELSE /\ idx' = [idx EXCEPT ![t] = count]
          /\ pc' = [pc EXCEPT ![t] = "nc_store"]
          /\ UNCHANGED <<mu, outcome, inClosure>>
  /\ UNCHANGED <<platform, trampolineBaseAddr, funcs, count, val, cbArgs,
                 cbFn, count0, regs, opsLeft, started>>

\* callbacks.funcs[idx] = val
NewCallbackStore(t) ==
  /\ UNCHANGED ffiVars
  /\ pc[t] = "nc_store"
  /\ funcs' = StoreFunc(funcs, idx[t], val[t])
  /\ pc' = [pc EXCEPT ![t] = "nc_incr"]
  /\ UNCHANGED <<inClosure, platform, trampolineBaseAddr, mu, count, val, idx, cbArgs,
                 cbFn, outcome, count0, regs, opsLeft, started>>

\* callbacks.count++
NewCallbackIncr(t) ==
  /\ UNCHANGED ffiVars
  /\ pc[t] = "nc_incr"
  /\ count' = count + 1
  /\ pc' = [pc EXCEPT ![t] = "nc_ret"]
  /\ UNCHANGED <<inClosure, platform, trampolineBaseAddr, mu, funcs, val, idx, cbArgs,
                 cbFn, outcome, count0, regs, opsLeft, started>>

\* return trampolineEntryAddr(idx), then the deferred Unlock
NewCallbackReturn(t) ==
  /\ UNCHANGED ffiVars
  /\ pc[t] = "nc_ret"
  /\ LET addr == trampolineEntryAddr(idx[t])
     IN  /\ outcome' = [outcome EXCEPT ![t] =
                          [op |-> "register", how |-> "return", value |-> addr,
                           fn |-> val[t], index |-> idx[t], frame |-> 0]]
         /\ regs' = Append(regs, [val |-> val[t], idx |-> idx[t], addr |-> addr,
                                by |-> t])
  /\ mu' = 0
  /\ pc' = [pc EXCEPT ![t] = IF t \in inClosure THEN "cw_call" ELSE "idle"]
  /\ inClosure' = inClosure \ {t}
  /\ UNCHANGED <<platform, trampolineBaseAddr, funcs, count, val, idx, cbArgs,
                 cbFn, count0, opsLeft, started>>

\* native code calls an entry address it was given: the trampoline enters
\* callbackWrap with that entry's index and the caller's register frame
CallbackWrapEnter(t) ==
  /\ UNCHANGED ffiVars
  /\ StartOp(t)
  /\ \E addr \in IssuedAddrs, s \in Frames :
       cbArgs' = [cbArgs EXCEPT ![t] =
                    [index |-> callbackIndex(addr), frame |-> s, result |-> 0]]
  /\ pc' = [pc EXCEPT ![t] = "cw_lock"]
  /\ outcome' = [outcome EXCEPT ![t] = NoOutcome]
  /\ UNCHANGED <<inClosure, platform, trampolineBaseAddr, mu, funcs, count, val, idx,
                 cbFn, count0, regs>>

\* callbacks.mu.Lock()
CallbackWrapLock(t) ==
  /\ UNCHANGED ffiVars
  /\ pc[t] = "cw_lock"
  /\ mu = 0
  /\ mu' = t
  /\ pc' = [pc EXCEPT ![t] = "cw_fetch"]
  /\ UNCHANGED <<inClosure, platform, trampolineBaseAddr, funcs, count, val, idx, cbArgs,
                 cbFn, outcome, count0, regs, opsLeft, started>>

\* fn := callbacks.funcs[a.index]
CallbackWrapFetch(t) ==
  /\ UNCHANGED ffiVars
  /\ pc[t] = "cw_fetch"
  /\ cbFn' = [cbFn EXCEPT ![t] = FetchFunc(funcs, cbArgs[t].index)]
  /\ pc' = [pc EXCEPT ![t] = "cw_unlock"]
  /\ UNCHANGED <<inClosure, platform, trampolineBaseAddr, mu, funcs, count, val, idx,
                 cbArgs, outcome, count0, regs, opsLeft, started>>

\* mutant: the mutex is kept while the closure runs
CallbackWrapUnlock_KeepsMutex(t) ==
  /\ UNCHANGED ffiVars
  /\ pc[t] = "cw_unlock"
  /\ pc' = [pc EXCEPT ![t] = "cw_call"]
  /\ UNCHANGED <<inClosure, platform, trampolineBaseAddr, mu, funcs, count, val, idx,
                 cbArgs, cbFn, outcome, count0, regs, opsLeft, started>>

\* callbacks.mu.Unlock()
CallbackWrapUnlock(t) ==
  /\ UNCHANGED ffiVars
  /\ pc[t] = "cw_unlock"
  /\ mu' = 0
  /\ pc' = [pc EXCEPT ![t] = "cw_call"]
  /\ UNCHANGED <<inClosure, platform, trampolineBaseAddr, funcs, count, val, idx, cbArgs,
                 cbFn, outcome, count0, regs, opsLeft, started>>

\* the closure run by callbackWrap calls NewCallback with a closure of a
\* supported signature: the call runs on the same thread, up to the mutex
ClosureRegisters(t) ==
  /\ UNCHANGED ffiVars
  /\ pc[t] = "cw_call"
  /\ cbFn[t] # NoFunc
  /\ opsLeft > 0
  /\ opsLeft' = opsLeft - 1
  /\ \E fn \in GoodFuncs : val' = [val EXCEPT ![t] = fn]
  /\ pc' = [pc EXCEPT ![t] = "nc_lock"]
  /\ inClosure' = inClosure \cup {t}
  /\ UNCHANGED <<platform, trampolineBaseAddr, mu, funcs, count, idx, cbArgs,
                 cbFn, outcome, count0, regs, started>>

\* decode the arguments, call the closure, marshal its result
CallbackWrapCall(t) ==
  /\ UNCHANGED ffiVars
  /\ pc[t] = "cw_call"
  /\ IF cbFn[t] = NoFunc
     THEN /\ outcome' = [outcome EXCEPT ![t] =
                           Panicked("dispatch", "reflect: call of Value.Type on zero Value")]
          /\ UNCHANGED cbArgs
     ELSE LET args == DecodeArgs(TypeOf(cbFn[t]).in, cbArgs[t].frame, 1, 0, 0,
                                 numFloatRegs + numIntRegs)
              res == EncodeResult(cbFn[t], CallClosure(cbFn[t], args))
          IN  /\ cbArgs' = [cbArgs EXCEPT ![t].result = res]
              /\ outcome' = [outcome EXCEPT ![t] =
                               [op |-> "dispatch", how |-> "return", value |-> res,
                                fn |-> cbFn[t], index |-> cbArgs[t].index,
                                frame |-> cbArgs[t].frame]]
  /\ pc' = [pc EXCEPT ![t] = "idle"]
  /\ UNCHANGED <<inClosure, platform, trampolineBaseAddr, mu, funcs, count, val, idx,
                 cbFn, count0, regs, opsLeft, started>>

\* the argument loop of callbackWrap on the parameter list of the closure
\* and the frame the trampoline saved
CallbackWrapDecode ==
  /\ dec.pc = "loop"
  /\ dec' = [dec EXCEPT !.pc = "done",
                        !.args = DecodeArgs(dec.ins, dec.frame, 1, 0, 0,
                                            numFloatRegs + numIntRegs)]
  /\ UNCHANGED <<cbVars, descs, cif, call, rbuf, callOut, descs0, prep, shape, comp>>

NextCallbacks ==
  \E t \in Threads :
    \/ NewCallbackEnter(t)
    \/ NewCallbackLock(t)
    \/ NewCallbackCheck(t)
    \/ NewCallbackStore(t)
    \/ NewCallbackIncr(t)
    \/ NewCallbackReturn(t)
    \/ CallbackWrapEnter(t)
    \/ CallbackWrapLock(t)
    \/ CallbackWrapFetch(t)
    \/ CallbackWrapUnlock(t)
    \/ ClosureRegisters(t)
    \/ CallbackWrapCall(t)

(***************************************************************************)
(* Type descriptors: types/types.go                                        *)
(***************************************************************************)
\* a nil *TypeDescriptor
NilDesc == "nil"

Desc(kind, size, alignment, members) ==
  [Kind |-> kind, Size |-> size, Alignment |-> alignment,
   Members |-> members, MembersNil |-> FALSE]
\* a struct descriptor whose Members slice is nil
DescNoMembers(size, alignment) ==
  [Kind |-> "StructType", Size |-> size, Alignment |-> alignment,
   Members |-> <<>>, MembersNil |-> TRUE]

\* A descriptor is known by its address; the model names the addresses.
\* Void ... Pointer are the predefined descriptors, the others are built
\* by the caller:
\*   Pair      struct { double; double }, layout unset
\*   Mixed     struct { int32; void* }, layout unset
\*   Empty     struct with an empty, non-nil member list
\*   NoMembers struct with a nil member list
\*   Big       struct { void*; void*; void* }, layout unset
\*   BadMember struct { <kind 99> }
\*   Nested    struct { uint8; struct { double; double } }
\*   BadKind   a descriptor whose kind is outside the TypeKind set
\*   Small     struct { uint8; uint16 }, layout unset
\*   Preset    struct { void*; void* } declared with Size 24, Alignment 8
\*   Wide      a uint64 descriptor declared with Size 2^w - 4, Alignment 3
DescTable0 ==
  [Void |-> Desc("VoidType", 1, 1, <<>>),
   Int |-> Desc("IntType", 4, 4, <<>>),
   Float |-> Desc("FloatType", 4, 4, <<>>),
   Double |-> Desc("DoubleType", 8, 8, <<>>),
   UInt8 |-> Desc("UInt8Type", 1, 1, <<>>),
   SInt8 |-> Desc("SInt8Type", 1, 1, <<>>),
   UInt16 |-> Desc("UInt16Type", 2, 2, <<>>),
   SInt16 |-> Desc("SInt16Type", 2, 2, <<>>),
   UInt32 |-> Desc("UInt32Type", 4, 4, <<>>),
   SInt32 |-> Desc("SInt32Type", 4, 4, <<>>),
   UInt64 |-> Desc("UInt64Type", 8, 8, <<>>),
   SInt64 |-> Desc("SInt64Type", 8, 8, <<>>),
   Pointer |-> Desc("PointerType", 8, 8, <<>>),
   Pair |-> Desc("StructType", 0, 0, <<"Double", "Double">>),
   Mixed |-> Desc("StructType", 0, 0, <<"SInt32", "Pointer">>),
   Empty |-> Desc("StructType", 0, 0, <<>>),
   NoMembers |-> DescNoMembers(0, 0),
   Big |-> Desc("StructType", 0, 0, <<"Pointer", "Pointer", "Pointer">>),
   BadMember |-> Desc("StructType", 0, 0, <<"BadKind">>),
   Nested |-> Desc("StructType", 0, 0, <<"UInt8", "Pair">>),
   BadKind |-> Desc("Kind99", 4, 4, <<>>),
   Small |-> Desc("StructType", 0, 0, <<"UInt8", "UInt16">>),
   Preset |-> Desc("StructType", 24, 8, <<"Pointer", "Pointer">>),
   Wide |-> Desc("UInt64Type", Modulus - 4, 3, <<>>),
   LateBad |-> Desc("StructType", 0, 0, <<"UInt8", "BadKind">>),
   Floats3 |-> Desc("StructType", 0, 4, <<"Float", "Float", "Float">>),
   S |-> Desc("StructType", 0, 0, <<"Inner">>),
   Inner |-> Desc("StructType", 0, 0, <<"Float">>)]

\* bit clear (the Go operator &^) on machine words
RECURSIVE AndNot(_, _)
AndNot(a, b) ==
  IF a = 0 THEN 0
  ELSE (IF a % 2 = 1 /\ b % 2 = 0 THEN 1 ELSE 0) + 2 * AndNot(a \div 2, b \div 2)

\* mutant: no rounding
align_NoRounding(value, alignment) == ToUintptr(value)

align(value, alignment) ==
  AndNot(ToUintptr(value + alignment + Modulus - 1),
         ToUintptr(alignment + Modulus - 1))

alignOffset(value, alignment) ==
  IF alignment = 0 THEN value ELSE align(value, alignment)

isValidType(t) ==
  t.Kind \in {"VoidType", "IntType", "FloatType", "DoubleType",
              "UInt8Type", "SInt8Type", "UInt16Type", "SInt16Type",
              "UInt32Type", "SInt32Type", "UInt64Type", "SInt64Type",
              "StructType", "PointerType"}

(***************************************************************************)
(* Errors: ffi/errors.go                                                   *)
(***************************************************************************)
NoError == [type |-> "nil", field |-> "", index |-> -1, wrap |-> <<>>]
InvalidCallInterfaceError(field) ==
  [type |-> "InvalidCallInterfaceError", field |-> field, index |-> -1,
   wrap |-> <<>>]
TypeValidationError(name, index) ==
  [type |-> "TypeValidationError", field |-> name, index |-> index,
   wrap |-> <<>>]
CallingConventionError ==
  [type |-> "CallingConventionError", field |-> "convention", index |-> -1,
   wrap |-> <<>>]
ErrUnsupportedReturnType ==
  [type |-> "ErrUnsupportedReturnType", field |-> "", index |-> -1,
   wrap |-> <<>>]
\* a context error: context.Canceled or context.DeadlineExceeded
ContextError(name) == [type |-> name, field |-> "", index |-> -1, wrap |-> <<>>]
\* a run-time panic of the Go runtime
RuntimePanic(msg) == [type |-> "panic", field |-> msg, index |-> -1, wrap |-> <<>>]
\* fmt.Errorf("<where> %d: %w", i, err)
Wrap(err, where, i) == [err EXCEPT !.wrap = <<<<where, i>>>> \o @]

(***************************************************************************)
(* Caller memory.  The byte an argument pointer addresses is fixed by the   *)
(* address: every argument cell of every thread holds its own value.       *)
(***************************************************************************)
RECURSIVE BitOr(_, _)
BitOr(a, b) ==
  IF a = 0 THEN b
  ELSE IF b = 0 THEN a
  ELSE (IF a % 2 = 1 \/ b % 2 = 1 THEN 1 ELSE 0) + 2 * BitOr(a \div 2, b \div 2)

\* v << bits on a machine word, bits counted as the program counts them
\* (8 to a byte)
ShiftLeft(v, bits) == ToUintptr(v * Pow2((bits \div 8) * ByteBits))

ByteAt(a) == (a + (a \div 8) + 1) % Range(1)

\* *(*uintN)(ptr): the little-endian value of the n bytes at address a
RECURSIVE Load(_, _)
Load(a, n) ==
  IF n = 0 THEN 0 ELSE ByteAt(a) + Range(1) * Load(a + 1, n - 1)

\* float32 values are the naturals below Range(4); math.Float32bits and
\* math.Float32frombits take the complement within 4 bytes
Float32bits(f) == Range(4) - 1 - f
Float32frombits(w) == Range(4) - 1 - (w % Range(4))

(***************************************************************************)
(* AAPCS64 struct layout and packing: internal/arch/arm64                  *)
(***************************************************************************)
classNone == 0
classFloat == 1
classInt == 2

RECURSIVE ensureStructLayout(_, _), ensureMembers(_, _, _, _, _)

\* returns the descriptors after the stores the function makes, the
\* (size, align) pair it returns, and the fields it stored to
ensureStructLayout(ds, desc) ==
  IF desc = NilDesc THEN [ds |-> ds, size |-> 0, align |-> 1, stores |-> {}]
  ELSE IF ds[desc].Kind # "StructType"
  THEN LET ds1 == IF ds[desc].Alignment = 0
                  THEN [ds EXCEPT ![desc].Alignment =
                          IF ds[desc].Size # 0 THEN ds[desc].Size ELSE 1]
                  ELSE ds
       IN  [ds |-> ds1, size |-> ds1[desc].Size, align |-> ds1[desc].Alignment,
            stores |-> IF ds[desc].Alignment = 0 THEN {<<desc, "Alignment">>}
                       ELSE {}]
  ELSE IF ds[desc].Size # 0 /\ ds[desc].Alignment # 0
  THEN [ds |-> ds, size |-> ds[desc].Size, align |-> ds[desc].Alignment,
        stores |-> {}]
  ELSE LET afterLoop(m) ==
             LET size == alignOffset(m.offset, m.maxAlign)
                 old == m.ds[desc]
                 new == [old EXCEPT
                           !.Size = IF @ = 0 THEN size ELSE @,
                           !.Alignment = IF @ = 0 THEN m.maxAlign ELSE @]
             IN  [ds |-> [m.ds EXCEPT ![desc] = new],
                  size |-> new.Size, align |-> new.Alignment,
                  stores |-> m.stores
                             \cup (IF old.Size = 0 THEN {<<desc, "Size">>} ELSE {})
                             \cup (IF old.Alignment = 0
                                   THEN {<<desc, "Alignment">>} ELSE {})]
       IN  afterLoop(ensureMembers(ds, desc, 1, 0, 1))

\* the member loop of ensureStructLayout, from member i on
ensureMembers(ds, desc, i, offset, maxAlign) ==
  IF i > Len(ds[desc].Members)
  THEN [ds |-> ds, offset |-> offset, maxAlign |-> maxAlign, stores |-> {}]
  ELSE LET member == ds[desc].Members[i]
       IN  IF member = NilDesc
           THEN ensureMembers(ds, desc, i + 1, offset, maxAlign)
           ELSE LET afterMember(r) ==
                      LET mAlign == IF r.align = 0 THEN 1 ELSE r.align
                      IN  [ensureMembers(r.ds, desc, i + 1,
                                  ToUintptr(alignOffset(offset, mAlign) + r.size),
                                  IF mAlign > maxAlign THEN mAlign ELSE maxAlign)
                           EXCEPT !.stores = @ \cup r.stores]
                IN  afterMember(ensureStructLayout(ds, member))

RECURSIVE hfaWalk(_, _, _), hfaWalkMembers(_, _, _, _)
\* mutant: elements of different widths are accepted
hfaWalk_AnyWidth(ds, desc, st) ==
  IF ds[desc].Kind \in {"FloatType", "DoubleType"}
  THEN [ok |-> st.totalCount + 1 <= 4,
        elementKind |-> IF st.elementKind = "invalid" THEN ds[desc].Kind
                        ELSE st.elementKind,
        totalCount |-> st.totalCount + 1]
  ELSE IF ds[desc].Kind = "StructType"
  THEN IF Len(ds[desc].Members) = 0
       THEN [st EXCEPT !.ok = FALSE]
       ELSE hfaWalkMembers(ds, desc, 1, st)
  ELSE [st EXCEPT !.ok = FALSE]

\* the closure walk of isHomogeneousFloatAggregate; st carries ok (the
\* value walk returns), elementKind and totalCount
hfaWalk(ds, desc, st) ==
  IF ds[desc].Kind \in {"FloatType", "DoubleType"}
  THEN IF st.elementKind = "invalid"
       THEN [ok |-> st.totalCount + 1 <= 4, elementKind |-> ds[desc].Kind,
             totalCount |-> st.totalCount + 1]
       ELSE IF ds[desc].Kind # st.elementKind
       THEN [st EXCEPT !.ok = FALSE]
       ELSE [ok |-> st.totalCount + 1 <= 4, elementKind |-> st.elementKind,
             totalCount |-> st.totalCount + 1]
  ELSE IF ds[desc].Kind = "StructType"
  THEN IF Len(ds[desc].Members) = 0
       THEN [st EXCEPT !.ok = FALSE]
       ELSE hfaWalkMembers(ds, desc, 1, st)
  ELSE [st EXCEPT !.ok = FALSE]

hfaWalkMembers(ds, desc, i, st) ==
  IF i > Len(ds[desc].Members) THEN [st EXCEPT !.ok = TRUE]
  ELSE LET afterWalk(r) == IF ~r.ok THEN r ELSE hfaWalkMembers(ds, desc, i + 1, r)
       IN  afterWalk(hfaWalk(ds, ds[desc].Members[i], st))

isHomogeneousFloatAggregate(ds, t) ==
  LET no == [isHFA |-> FALSE, count |-> 0, kind |-> "VoidType"]
  IN  IF ds[t].Kind # "StructType" THEN no
      ELSE LET result(r) ==
                 IF ~r.ok \/ r.elementKind = "invalid" \/ r.totalCount = 0
                 THEN no
                 ELSE [isHFA |-> TRUE, count |-> r.totalCount, kind |-> r.elementKind]
           IN  result(hfaWalk(ds, t, [ok |-> TRUE, elementKind |-> "invalid",
                                      totalCount |-> 0]))

\* shift = (shift + alignBits) &^ alignBits, alignBits = Alignment*8 - 1
AlignShift(shift, alignment) ==
  LET alignBits == ToUintptr(alignment * 8 + Modulus - 1)
  IN  AndNot(ToUintptr(shift + alignBits), alignBits)

\* flush of countStructRegUsage; st carries shift, class, intCount, floatCount
countFlush(st) ==
  IF st.class = classNone THEN [st EXCEPT !.shift = 0]
  ELSE IF st.class = classFloat
  THEN [st EXCEPT !.floatCount = @ + 1, !.shift = 0, !.class = classNone]
  ELSE [st EXCEPT !.intCount = @ + 1, !.shift = 0, !.class = classNone]

RECURSIVE countWalk(_, _, _), countWalkMembers(_, _, _, _)
countWalk(ds, cur, st) ==
  IF cur = NilDesc THEN st
  ELSE IF ds[cur].Kind = "StructType" THEN countWalkMembers(ds, cur, 1, st)
  ELSE LET k == ds[cur].Kind
           aligned(sh) == IF sh >= 64 THEN countFlush([st EXCEPT !.shift = sh])
                          ELSE [st EXCEPT !.shift = sh]
           counted(s1) ==
             CASE k = "FloatType" ->
                    [(IF s1.class = classFloat THEN countFlush(s1) ELSE s1)
                     EXCEPT !.shift = @ + 32, !.class = BitOr(@, classFloat)]
               [] k = "DoubleType" ->
                    [countFlush(s1) EXCEPT !.floatCount = @ + 1, !.shift = 0,
                                           !.class = classNone]
               [] k \in {"UInt8Type", "SInt8Type"} ->
                    [s1 EXCEPT !.shift = @ + 8, !.class = BitOr(@, classInt)]
               [] k \in {"UInt16Type", "SInt16Type"} ->
                    [s1 EXCEPT !.shift = @ + 16, !.class = BitOr(@, classInt)]
               [] k \in {"UInt32Type", "SInt32Type"} ->
                    [s1 EXCEPT !.shift = @ + 32, !.class = BitOr(@, classInt)]
               [] OTHER ->
                    [countFlush(s1) EXCEPT !.intCount = @ + 1, !.shift = 0,
                                           !.class = classNone]
       IN  counted(aligned(AlignShift(st.shift, ds[cur].Alignment)))

countWalkMembers(ds, cur, i, st) ==
  IF i > Len(ds[cur].Members) THEN st
  ELSE countWalkMembers(ds, cur, i + 1, countWalk(ds, ds[cur].Members[i], st))

\* the counts countStructRegUsage returns, on descriptors that its
\* ensureStructLayout call has already been applied to
countStructRegUsage(ds, desc) ==
  IF desc = NilDesc \/ ds[desc].Kind # "StructType"
  THEN [intCount |-> 0, floatCount |-> 0]
  ELSE LET counts(e) == [intCount |-> e.intCount, floatCount |-> e.floatCount]
           last(r) == counts(IF r.class # classNone THEN countFlush(r) ELSE r)
       IN  last(countWalk(ds, desc, [shift |-> 0, class |-> classNone,
                                     intCount |-> 0, floatCount |-> 0]))

\* the staged registers: gpr and fpr hold the values staged so far, the
\* next index (gprIdx, fprIdx) is the length
NoRegs == [gpr |-> <<>>, fpr |-> <<>>]
\* register k (from 1); a register nothing was staged in holds zero
Reg(rs, k) == IF k <= Len(rs) THEN rs[k] ELSE 0

\* the addInt / addFloat closures Execute hands to placeStructRegisters;
\* st carries val, shift, class, ok and the registers
addInt(st, v) ==
  IF Len(st.gpr) >= numIntRegsARM64 THEN [st EXCEPT !.ok = FALSE]
  ELSE [st EXCEPT !.gpr = Append(@, ToUintptr(v))]
addFloat(st, v) ==
  IF Len(st.fpr) >= numFloatRegs THEN [st EXCEPT !.ok = FALSE]
  ELSE [st EXCEPT !.fpr = Append(@, ToUintptr(v))]

placeFlush(st) ==
  LET cleared == [st EXCEPT !.val = 0, !.shift = 0, !.class = classNone]
  IN  IF ~st.ok \/ st.class = classNone THEN cleared
      ELSE IF st.class = classFloat THEN addFloat(cleared, st.val)
      ELSE addInt(cleared, st.val)

RECURSIVE place(_, _, _, _), placeMembers(_, _, _, _, _, _)
place(ds, cur, ptr, st) ==
  IF ~st.ok \/ cur = NilDesc THEN st
  ELSE IF ds[cur].Kind = "StructType" THEN placeMembers(ds, cur, ptr, 1, 0, st)
  ELSE LET k == ds[cur].Kind
           aligned(sh) == IF sh >= 64 THEN placeFlush([st EXCEPT !.shift = sh])
                          ELSE [st EXCEPT !.shift = sh]
           reset(s) == [s EXCEPT !.shift = 0, !.class = classNone, !.val = 0]
           pack(s, bits, bitWidth, cls) ==
             [s EXCEPT !.val = BitOr(@, ShiftLeft(bits, s.shift)),
                       !.shift = @ + bitWidth,
                       !.class = BitOr(@, cls)]
           width == CASE k \in {"UInt8Type", "SInt8Type"} -> 1
                      [] k \in {"UInt16Type", "SInt16Type"} -> 2
                      [] k \in {"FloatType", "UInt32Type", "SInt32Type"} -> 4
                      [] OTHER -> 8
           put(s1, v) ==
             CASE k = "FloatType" ->
                    pack(IF s1.class = classFloat THEN placeFlush(s1) ELSE s1,
                         Float32bits(Float32frombits(v)), 32, classFloat)
               [] k = "DoubleType" ->
                    reset(addFloat(s1, Float64bits(Float64frombits(v))))
               [] k \in {"UInt8Type", "SInt8Type"} -> pack(s1, v, 8, classInt)
               [] k \in {"UInt16Type", "SInt16Type"} -> pack(s1, v, 16, classInt)
               [] k \in {"UInt32Type", "SInt32Type"} -> pack(s1, v, 32, classInt)
               [] k \in {"UInt64Type", "SInt64Type", "PointerType"} ->
                    reset(addInt(s1, v))
               [] OTHER -> [s1 EXCEPT !.ok = FALSE]
       IN  put(aligned(AlignShift(st.shift, ds[cur].Alignment)), Load(ptr, width))

placeMembers(ds, cur, ptr, i, offset, st) ==
  IF i > Len(ds[cur].Members) THEN st
  ELSE LET member == ds[cur].Members[i]
       IN  IF member = NilDesc
           THEN placeMembers(ds, cur, ptr, i + 1, offset, st)
           ELSE LET off == alignOffset(offset, ds[member].Alignment)
                IN  placeMembers(ds, cur, ptr, i + 1,
                                 ToUintptr(off + ds[member].Size),
                                 place(ds, member, ptr + off, st))

\* returns ok and the registers as the closures left them
placeStructRegisters(ds, base, desc, rg) ==
  IF base = 0 \/ desc = NilDesc \/ ds[desc].Kind # "StructType"
  THEN [ok |-> FALSE, regs |-> rg]
  ELSE LET result(e) == [ok |-> e.ok, regs |-> [gpr |-> e.gpr, fpr |-> e.fpr]]
           last(r) == result(IF r.ok /\ r.class # classNone THEN placeFlush(r) ELSE r)
       IN  last(place(ds, desc, base,
                      [val |-> 0, shift |-> 0, class |-> classNone, ok |-> TRUE,
                       gpr |-> rg.gpr, fpr |-> rg.fpr]))

(***************************************************************************)
(* Argument staging of the three engines                                   *)
(***************************************************************************)
PushGpr(rg, limit, v) ==
  IF Len(rg.gpr) < limit THEN [rg EXCEPT !.gpr = Append(@, ToUintptr(v))] ELSE rg
PushFpr(rg, limit, v) ==
  IF Len(rg.fpr) < limit THEN [rg EXCEPT !.fpr = Append(@, ToUintptr(v))] ELSE rg

\* case types.PointerType of the System V engine
StagePointerAMD64Unix(a) == a

\* one iteration of the loop of Execute, System V AMD64
StageAMD64Unix(ds, argType, a, rg) ==
  LET k == ds[argType].Kind
  IN  CASE k = "FloatType" ->
             PushFpr(rg, 8, Float64bits(Float32frombits(Load(a, 4))))
        [] k = "DoubleType" ->
             PushFpr(rg, 8, Float64bits(Float64frombits(Load(a, 8))))
        [] k = "PointerType" -> PushGpr(rg, 6, StagePointerAMD64Unix(a))
        [] k \in {"SInt32Type", "UInt32Type"} ->
             PushGpr(rg, 6, ZeroExt(Load(a, 4), 4))
        [] k \in {"SInt64Type", "UInt64Type"} -> PushGpr(rg, 6, Load(a, 8))
        [] OTHER -> PushGpr(rg, 6, a)

\* one iteration of the loop of Execute, Win64: args[idx] = ...
StageWindows(ds, argType, a, rg) ==
  LET k == ds[argType].Kind
      v == CASE k = "PointerType" -> Load(a, 8)
             [] k \in {"SInt8Type", "UInt8Type"} -> ZeroExt(Load(a, 1), 1)
             [] k \in {"SInt16Type", "UInt16Type"} -> ZeroExt(Load(a, 2), 2)
             [] k \in {"SInt32Type", "UInt32Type"} -> ZeroExt(Load(a, 4), 4)
             [] k \in {"SInt64Type", "UInt64Type"} -> Load(a, 8)
             [] k = "FloatType" -> Float64bits(Float32frombits(Load(a, 4)))
             [] k = "DoubleType" -> Load(a, 8)
             [] OTHER -> a
  IN  [rg EXCEPT !.gpr = Append(@, ToUintptr(v))]

\* one iteration of the loop of Execute, AAPCS64, for a struct argument,
\* after its ensureStructLayout call
StageStructARM64(ds, argType, a, rg) ==
  LET byReference(p2, e2) ==
        [ds |-> e2.ds, stores |-> e2.stores,
         regs |-> IF p2.ok THEN p2.regs ELSE PushGpr(p2.regs, 8, a)]
      smallWith(r1, e2, cnt) ==
        byReference(IF /\ Len(r1.gpr) + cnt.intCount <= 8
                       /\ Len(r1.fpr) + cnt.floatCount <= 8
                    THEN placeStructRegisters(e2.ds, a, argType, r1)
                    ELSE [ok |-> FALSE, regs |-> r1],
                    e2)
      small(r1, e2) == smallWith(r1, e2, countStructRegUsage(e2.ds, argType))
      afterHFA(p1) ==
        IF p1.ok THEN [ds |-> ds, stores |-> {}, regs |-> p1.regs]
        ELSE IF ds[argType].Size <= 16
        THEN small(p1.regs, ensureStructLayout(ds, argType))
        ELSE byReference(p1, [ds |-> ds, stores |-> {}])
      tryHFA(hfa) ==
        afterHFA(IF /\ hfa.isHFA /\ hfa.count > 0 /\ hfa.count <= 4
                    /\ Len(rg.fpr) + hfa.count <= 8
                 THEN placeStructRegisters(ds, a, argType, rg)
                 ELSE [ok |-> FALSE, regs |-> rg])
  IN  tryHFA(isHomogeneousFloatAggregate(ds, argType))

\* one iteration of the loop of Execute, AAPCS64, other kinds
StageARM64(ds, argType, a, rg) ==
  LET k == ds[argType].Kind
  IN  CASE k = "FloatType" ->
             PushFpr(rg, 8, Float32bits(Float32frombits(Load(a, 4))))
        [] k = "DoubleType" ->
             PushFpr(rg, 8, Float64bits(Float64frombits(Load(a, 8))))
        [] k = "PointerType" -> PushGpr(rg, 8, Load(a, 8))
        [] k = "SInt8Type" -> PushGpr(rg, 8, SignExt(Load(a, 1), 1) + Modulus)
        [] k = "UInt8Type" -> PushGpr(rg, 8, ZeroExt(Load(a, 1), 1))
        [] k = "SInt16Type" -> PushGpr(rg, 8, SignExt(Load(a, 2), 2) + Modulus)
        [] k = "UInt16Type" -> PushGpr(rg, 8, ZeroExt(Load(a, 2), 2))
        [] k = "SInt32Type" -> PushGpr(rg, 8, SignExt(Load(a, 4), 4) + Modulus)
        [] k = "UInt32Type" -> PushGpr(rg, 8, ZeroExt(Load(a, 4), 4))
        [] k \in {"SInt64Type", "UInt64Type"} -> PushGpr(rg, 8, Load(a, 8))
        [] OTHER -> PushGpr(rg, 8, a)

(***************************************************************************)
(* Return flags and classification                                         *)
(***************************************************************************)
ReturnVoid == 0
ReturnSInt8 == 4
ReturnSInt16 == 5
ReturnSInt32 == 6
ReturnInt64 == 7
ReturnInXMM32 == 8
ReturnInXMM64 == 9
\* Flags: the return code, the ReturnViaPointer bit and the ReturnHFA bits
\* (hfa is 0, 2, 3 or 4)
Flags(code, viaPointer, hfa) == [code |-> code, viaPointer |-> viaPointer, hfa |-> hfa]

classifyReturnAMD64(t) ==
  CASE t.Kind = "VoidType" -> Flags(ReturnVoid, FALSE, 0)
    [] t.Kind = "FloatType" -> Flags(ReturnInXMM32, FALSE, 0)
    [] t.Kind = "DoubleType" -> Flags(ReturnInXMM64, FALSE, 0)
    [] t.Kind = "StructType" ->
         CASE t.Size = 1 -> Flags(ReturnSInt8, FALSE, 0)
           [] t.Size = 2 -> Flags(ReturnSInt16, FALSE, 0)
           [] t.Size = 4 -> Flags(ReturnSInt32, FALSE, 0)
           [] t.Size = 8 -> Flags(ReturnInt64, FALSE, 0)
           [] OTHER -> Flags(ReturnVoid, TRUE, 0)
    [] OTHER -> IF t.Size <= 8 THEN Flags(ReturnInt64, FALSE, 0)
                ELSE Flags(ReturnVoid, TRUE, 0)

\* mutant: the size of a struct is looked at before its HFA property
classifyReturnARM64_SizeFirst(ds, t) ==
  LET k == ds[t].Kind
      classified(r, hfa) ==
        [ds |-> r,
         flags |->
           CASE k = "VoidType" -> Flags(ReturnVoid, FALSE, 0)
             [] k = "FloatType" -> Flags(ReturnInXMM32, FALSE, 0)
             [] k = "DoubleType" -> Flags(ReturnInXMM64, FALSE, 0)
             [] k = "StructType" ->
                  IF r[t].Size > 16 THEN Flags(ReturnVoid, TRUE, 0)
                  ELSE IF hfa.isHFA /\ hfa.count <= 4
                  THEN Flags(IF hfa.kind = "FloatType" THEN ReturnInXMM32
                             ELSE ReturnInXMM64,
                             FALSE, IF hfa.count = 1 THEN 0 ELSE hfa.count)
                  ELSE Flags(ReturnInt64, FALSE, 0)
             [] OTHER -> IF r[t].Size <= 8 THEN Flags(ReturnInt64, FALSE, 0)
                         ELSE Flags(ReturnVoid, TRUE, 0)]
      laidOut(r) == classified(r, isHomogeneousFloatAggregate(r, t))
  IN  laidOut(IF k = "StructType" THEN ensureStructLayout(ds, t).ds ELSE ds)

\* returns the flags and the descriptors after ensureStructLayout
classifyReturnARM64(ds, t) ==
  LET k == ds[t].Kind
      classified(r, hfa) ==
        [ds |-> r,
         flags |->
           CASE k = "VoidType" -> Flags(ReturnVoid, FALSE, 0)
             [] k = "FloatType" -> Flags(ReturnInXMM32, FALSE, 0)
             [] k = "DoubleType" -> Flags(ReturnInXMM64, FALSE, 0)
             [] k = "StructType" ->
                  IF hfa.isHFA /\ hfa.count <= 4
                  THEN Flags(IF hfa.kind = "FloatType" THEN ReturnInXMM32
                             ELSE ReturnInXMM64,
                             FALSE, IF hfa.count = 1 THEN 0 ELSE hfa.count)
                  ELSE IF r[t].Size <= 16 THEN Flags(ReturnInt64, FALSE, 0)
                  ELSE Flags(ReturnVoid, TRUE, 0)
             [] OTHER -> IF r[t].Size <= 8 THEN Flags(ReturnInt64, FALSE, 0)
                         ELSE Flags(ReturnVoid, TRUE, 0)]
      laidOut(r) == classified(r, isHomogeneousFloatAggregate(r, t))
  IN  laidOut(IF k = "StructType" THEN ensureStructLayout(ds, t).ds ELSE ds)

\* the descriptors after classifyArgumentARM64(t): its ensureStructLayout
\* calls are its only effect that the compiler keeps
classifyArgumentARM64(ds, t) ==
  IF ds[t].Kind = "StructType" THEN ensureStructLayout(ds, t).ds ELSE ds

(***************************************************************************)
(* The call interface compiler: ffi/ffi.go, ffi/cif.go                     *)
(***************************************************************************)
UnixCallingConvention == 1
WindowsCallingConvention == 2
GnuWindowsCallingConvention == 3
DefaultCall == 0

Platforms == {"unix_amd64", "unix_arm64", "windows_amd64"}

DefaultConvention(plat) ==
  IF plat = "windows_amd64" THEN WindowsCallingConvention ELSE UnixCallingConvention

\* a zero CallInterface
NoCif == [Convention |-> 0, ArgCount |-> 0, ArgTypes |-> <<>>,
          ReturnType |-> NilDesc, Flags |-> Flags(0, FALSE, 0), StackBytes |-> 0]

RECURSIVE initializeCompositeType(_, _), initializeMembers(_, _, _)
\* returns the error and the descriptors as the call leaves them
initializeCompositeType(ds, t) ==
  IF t = NilDesc THEN [err |-> TypeValidationError("compositeType", -1), ds |-> ds]
  ELSE IF ds[t].Kind # "StructType"
  THEN [err |-> TypeValidationError("compositeType", -1), ds |-> ds]
  ELSE IF ds[t].MembersNil
  THEN [err |-> TypeValidationError("compositeType", -1), ds |-> ds]
  ELSE LET afterLoop(r) ==
             IF r.err # NoError THEN r
             ELSE [err |-> NoError,
                   ds |-> [r.ds EXCEPT ![t].Size = align(@, r.ds[t].Alignment)]]
       IN  afterLoop(initializeMembers([ds EXCEPT ![t].Size = 0, ![t].Alignment = 0],
                                       t, 1))

\* the member loop of initializeCompositeType, from member i on
initializeMembers(ds, t, i) ==
  IF i > Len(ds[t].Members) THEN [err |-> NoError, ds |-> ds]
  ELSE LET member == ds[t].Members[i]
       IN  IF member = NilDesc
           THEN [err |-> RuntimePanic("nil pointer dereference"), ds |-> ds]
           ELSE LET afterMember(r, m) ==
                      IF r.err # NoError
                      THEN [err |-> Wrap(r.err, "struct member at index", i - 1),
                            ds |-> r.ds]
                      ELSE IF ~isValidType(m)
                      THEN [err |-> TypeValidationError("structMember", i - 1),
                            ds |-> r.ds]
                      ELSE initializeMembers(
                             [r.ds EXCEPT
                                ![t].Size = ToUintptr(align(@, m.Alignment) + m.Size),
                                ![t].Alignment = IF m.Alignment > @ THEN m.Alignment
                                                 ELSE @],
                             t, i + 1)
                    initialized(r) == afterMember(r, r.ds[member])
                IN  initialized(IF ds[member].Size = 0 /\ ds[member].Kind = "StructType"
                                THEN initializeCompositeType(ds, member)
                                ELSE [err |-> NoError, ds |-> ds])

RECURSIVE stackLoop(_, _, _, _)
\* mutant: the stack size is taken from the descriptor as it was before its
\* layout was computed
stackLoop_StaleSize(ds, argTypes, i, stackBytes) ==
  IF i > Len(argTypes) THEN [err |-> NoError, ds |-> ds, stackBytes |-> stackBytes]
  ELSE LET t == argTypes[i]
       IN  IF t = NilDesc
           THEN [err |-> RuntimePanic("nil pointer dereference"), ds |-> ds,
                 stackBytes |-> stackBytes]
           ELSE LET afterArg(r, d) ==
                      IF r.err # NoError
                      THEN [err |-> Wrap(r.err, "argument type at index", i - 1),
                            ds |-> r.ds, stackBytes |-> stackBytes]
                      ELSE IF ~isValidType(d)
                      THEN [err |-> TypeValidationError("argTypes", i - 1),
                            ds |-> r.ds, stackBytes |-> stackBytes]
                      ELSE stackLoop(r.ds, argTypes, i + 1,
                                     ToUintptr(align(stackBytes, d.Alignment)
                                               + align(d.Size, 8)))
                    initialized(r) == afterArg(r, ds[t])
                IN  initialized(IF ds[t].Size = 0 /\ ds[t].Kind = "StructType"
                                THEN initializeCompositeType(ds, t)
                                ELSE [err |-> NoError, ds |-> ds])

\* the "Calculate stack size" loop, from argument i on
stackLoop(ds, argTypes, i, stackBytes) ==
  IF i > Len(argTypes) THEN [err |-> NoError, ds |-> ds, stackBytes |-> stackBytes]
  ELSE LET t == argTypes[i]
       IN  IF t = NilDesc
           THEN [err |-> RuntimePanic("nil pointer dereference"), ds |-> ds,
                 stackBytes |-> stackBytes]
           ELSE LET afterArg(r, d) ==
                      IF r.err # NoError
                      THEN [err |-> Wrap(r.err, "argument type at index", i - 1),
                            ds |-> r.ds, stackBytes |-> stackBytes]
                      ELSE IF ~isValidType(d)
                      THEN [err |-> TypeValidationError("argTypes", i - 1),
                            ds |-> r.ds, stackBytes |-> stackBytes]
                      ELSE stackLoop(r.ds, argTypes, i + 1,
                                     ToUintptr(align(stackBytes, d.Alignment)
                                               + align(d.Size, 8)))
                    initialized(r) == afterArg(r, r.ds[t])
                IN  initialized(IF ds[t].Size = 0 /\ ds[t].Kind = "StructType"
                                THEN initializeCompositeType(ds, t)
                                ELSE [err |-> NoError, ds |-> ds])

\* returns the error, the CallInterface and the descriptors as the call
\* leaves them; c is the CallInterface on entry
prepareCallInterfaceCore(ds, c, conv, argCount, returnType, argTypes) ==
  LET convention == IF conv = DefaultCall THEN DefaultConvention(platform) ELSE conv
  IN  IF convention < UnixCallingConvention \/ convention > GnuWindowsCallingConvention
      THEN [err |-> CallingConventionError, cif |-> c, ds |-> ds]
      ELSE
        LET c1 == [c EXCEPT !.Convention = convention, !.ArgCount = argCount,
                            !.ArgTypes = argTypes, !.ReturnType = returnType]
            sized(s) ==
              IF s.err # NoError THEN [err |-> s.err, cif |-> c1, ds |-> s.ds]
              ELSE [err |-> NoError,
                    cif |-> [c1 EXCEPT !.StackBytes = s.stackBytes],
                    ds |-> s.ds]
            initialized(r) ==
              IF r.err # NoError THEN [err |-> r.err, cif |-> c1, ds |-> r.ds]
              ELSE IF ~isValidType(r.ds[returnType])
              THEN [err |-> TypeValidationError("returnType", -1), cif |-> c1,
                    ds |-> r.ds]
              ELSE sized(stackLoop(r.ds, argTypes, 1, 0))
        IN  initialized(IF ds[returnType].Size = 0 /\ ds[returnType].Kind = "StructType"
                        THEN initializeCompositeType(ds, returnType)
                        ELSE [err |-> NoError, ds |-> ds])

RECURSIVE classifyArguments(_, _, _)
\* the ClassifyArgument loop of preparePlatformSpecific, from argument i on
classifyArguments(ds, argTypes, i) ==
  IF i > Len(argTypes) THEN ds
  ELSE classifyArguments(
         IF platform = "unix_arm64" THEN classifyArgumentARM64(ds, argTypes[i]) ELSE ds,
         argTypes, i + 1)

\* mutant: the shadow space is reserved only when there are no arguments
ShadowSpace_OnlyEmpty(c) ==
  IF c.Convention = WindowsCallingConvention /\ c.StackBytes = 0 THEN 32
  ELSE c.StackBytes

\* the Windows-specific tail of preparePlatformSpecific
ShadowSpace(c) ==
  IF c.Convention = WindowsCallingConvention /\ c.StackBytes < 32 THEN 32
  ELSE c.StackBytes

preparePlatformSpecific(ds, c) ==
  LET classified(ret) ==
        [err |-> NoError,
         cif |-> [c EXCEPT !.Flags = ret.flags,
                           !.StackBytes = ShadowSpace([c EXCEPT !.Flags = ret.flags])],
         ds |-> classifyArguments(ret.ds, c.ArgTypes, 1)]
  IN  classified(IF platform = "unix_arm64"
                 THEN classifyReturnARM64(ds, c.ReturnType)
                 ELSE [ds |-> ds, flags |-> classifyReturnAMD64(ds[c.ReturnType])])

PrepareCallInterface(ds, c, cifNil, convention, returnType, argTypes) ==
  IF cifNil THEN [err |-> InvalidCallInterfaceError("cif"), cif |-> c, ds |-> ds]
  ELSE IF returnType = NilDesc
  THEN [err |-> InvalidCallInterfaceError("returnType"), cif |-> c, ds |-> ds]
  ELSE LET core(r) == IF r.err # NoError THEN r
                       ELSE preparePlatformSpecific(r.ds, r.cif)
       IN  core(prepareCallInterfaceCore(ds, c, convention, Len(argTypes),
                                         returnType, argTypes))

(***************************************************************************)
(* The native call and the return path                                     *)
(***************************************************************************)
\* the caller's result buffer: RBufBytes bytes, none written yet
RBufBytes == 32
Unwritten == -1
FreshBuf == [k \in 0..(RBufBytes - 1) |-> Unwritten]

\* a store of the low n bytes of v at byte offset off of the buffer
StoreBytes(buf, off, n, v) ==
  [k \in DOMAIN buf |->
     IF k >= off /\ k < off + n THEN (v \div Range(k - off)) % Range(1) ELSE buf[k]]

\* The native function the callers invoke hands back what it was given:
\* the first two integer registers and the first four float registers.
\* Given an indirect result location (r8) it stores its first integer
\* argument there.
NativeEcho(rg) ==
  [retLo |-> Reg(rg.gpr, 1), retHi |-> Reg(rg.gpr, 2),
   fret |-> <<Reg(rg.fpr, 1), Reg(rg.fpr, 2), Reg(rg.fpr, 3), Reg(rg.fpr, 4)>>]

\* handleReturn of the amd64 engines; returns the error and the buffer
handleReturnAMD64(ds, c, rvalueNil, buf, retVal) ==
  LET k == ds[c.ReturnType].Kind
      wr(n) == [err |-> NoError, buf |-> StoreBytes(buf, 0, n, retVal)]
  IN  IF rvalueNil \/ k = "VoidType" THEN [err |-> NoError, buf |-> buf]
      ELSE IF c.Flags.viaPointer THEN wr(8)
      ELSE CASE k = "FloatType" -> wr(4)
             [] k = "DoubleType" -> wr(8)
             [] k \in {"UInt8Type", "SInt8Type"} -> wr(1)
             [] k \in {"UInt16Type", "SInt16Type"} -> wr(2)
             [] k \in {"UInt32Type", "SInt32Type"} -> wr(4)
             [] k \in {"UInt64Type", "SInt64Type", "PointerType"} -> wr(8)
             [] k = "StructType" ->
                  IF ds[c.ReturnType].Size <= 8 THEN wr(8)
                  ELSE [err |-> ErrUnsupportedReturnType, buf |-> buf]
             [] OTHER -> [err |-> ErrUnsupportedReturnType, buf |-> buf]

RECURSIVE hfaStore(_, _, _, _, _)
\* the dest[idx] = ... loop of handleHFAReturn, from element i (from 0) on
hfaStore(buf, fret, width, n, i) ==
  IF i >= n THEN buf
  ELSE hfaStore(StoreBytes(buf, i * width, width,
                           IF width = 4
                           THEN Float32bits(Float32frombits(fret[i + 1]))
                           ELSE Float64bits(Float64frombits(fret[i + 1]))),
                fret, width, n, i + 1)

handleHFAReturn(ds, c, buf, fret) ==
  LET stored(elemKind) ==
        [err |-> NoError,
         buf |-> hfaStore(buf, fret, IF elemKind = "FloatType" THEN 4 ELSE 8,
                          c.Flags.hfa, 0)]
      element(hfa) ==
        stored(IF c.ReturnType # NilDesc /\ ds[c.ReturnType].Kind = "StructType"
                  /\ hfa.isHFA
               THEN hfa.kind ELSE "DoubleType")
  IN  element(isHomogeneousFloatAggregate(ds, c.ReturnType))

\* handleReturn of the arm64 engine
handleReturnARM64(ds, c, rvalueNil, buf, retLo, retHi, fret) ==
  LET k == ds[c.ReturnType].Kind
      wr(n, v) == [err |-> NoError, buf |-> StoreBytes(buf, 0, n, v)]
  IN  IF rvalueNil \/ k = "VoidType" THEN [err |-> NoError, buf |-> buf]
      ELSE IF c.Flags.viaPointer THEN [err |-> NoError, buf |-> buf]
      ELSE IF c.Flags.hfa # 0 THEN handleHFAReturn(ds, c, buf, fret)
      ELSE CASE k = "FloatType" -> wr(4, Float32bits(Float32frombits(fret[1])))
             [] k = "DoubleType" -> wr(8, Float64bits(Float64frombits(fret[1])))
             [] k \in {"UInt8Type", "SInt8Type"} -> wr(1, retLo)
             [] k \in {"UInt16Type", "SInt16Type"} -> wr(2, retLo)
             [] k \in {"UInt32Type", "SInt32Type"} -> wr(4, retLo)
             [] k \in {"UInt64Type", "SInt64Type", "PointerType"} -> wr(8, retLo)
             [] k = "StructType" ->
                  IF ds[c.ReturnType].Size <= 8 THEN wr(8, retLo)
                  ELSE IF ds[c.ReturnType].Size <= 16
                  THEN [err |-> NoError,
                        buf |-> StoreBytes(StoreBytes(buf, 0, 8, retLo), 8, 8, retHi)]
                  ELSE [err |-> ErrUnsupportedReturnType, buf |-> buf]
             [] OTHER -> [err |-> ErrUnsupportedReturnType, buf |-> buf]

\* the native call of Execute and what follows it; returns the error and
\* the result buffer
CallAndReturn(ds, c, rvalueNil, buf, rg) ==
  LET n == NativeEcho(rg)
      floatRet == ds[c.ReturnType].Kind \in {"FloatType", "DoubleType"}
      sret == platform = "unix_arm64" /\ c.Flags.viaPointer /\ ~rvalueNil
  IN  CASE platform = "unix_amd64" ->
             handleReturnAMD64(ds, c, rvalueNil, buf,
                               IF floatRet THEN Float64bits(Float64frombits(n.fret[1]))
                               ELSE n.retLo)
        [] platform = "windows_amd64" ->
             handleReturnAMD64(ds, c, rvalueNil, buf, n.retLo)
        [] OTHER ->
             handleReturnARM64(ds, c, rvalueNil,
                               IF sret THEN StoreBytes(buf, 0, 8, n.retLo) ELSE buf,
                               n.retLo, n.retHi, n.fret)

(***************************************************************************)
(* CallFunctionContext and Execute                                         *)
(***************************************************************************)
\* ctx.Err() is nil for context.Background(), the context CallFunction
\* passes, as for any context that is still live
Contexts == {"Background", "Canceled", "DeadlineExceeded"}
CtxErr(ctx) ==
  IF ctx \in {"Canceled", "DeadlineExceeded"} THEN ContextError(ctx) ELSE NoError

\* mutant: the pointers are validated before the context is consulted
CallGate_PointersFirst(ctx, cifNil, fnNil) ==
  IF cifNil THEN InvalidCallInterfaceError("cif")
  ELSE IF fnNil THEN InvalidCallInterfaceError("fn")
  ELSE CtxErr(ctx)

\* mutant: fn is validated before cif
CallGate_FnFirst(ctx, cifNil, fnNil) ==
  IF CtxErr(ctx) # NoError THEN CtxErr(ctx)
  ELSE IF fnNil THEN InvalidCallInterfaceError("fn")
  ELSE IF cifNil THEN InvalidCallInterfaceError("cif")
  ELSE NoError

\* the checks of CallFunctionContext before executeFunction
CallGate(ctx, cifNil, fnNil) ==
  IF CtxErr(ctx) # NoError THEN CtxErr(ctx)
  ELSE IF cifNil THEN InvalidCallInterfaceError("cif")
  ELSE IF fnNil THEN InvalidCallInterfaceError("fn")
  ELSE NoError

\* avalue[i - 1] of thread t: every thread has its own argument cells
ArgAddr(t, i) == 256 * t + 32 * (i - 1)

\* a call in progress: its inputs, the loop index, the registers staged so
\* far and the descriptor fields its stores went to
NoCall == [ctx |-> "none", cifNil |-> FALSE, fnNil |-> FALSE,
           rvalueNil |-> TRUE, avalueLen |-> 0,
           idx |-> 0, regs |-> NoRegs, stores |-> {}]
\* what the caller of a finished call has seen
NoCallOut == [how |-> "none", err |-> NoError, ctx |-> "none", cifNil |-> FALSE,
              fnNil |-> FALSE, native |-> FALSE, rvalueNil |-> TRUE,
              avalueLen |-> 0, regs |-> NoRegs, stores |-> {}]

cbOnly == <<trampolineBaseAddr, mu, funcs, count, val, idx, cbArgs, cbFn,
            outcome, count0, regs, inClosure>>

\* CallFunctionContext up to executeFunction (CallFunction is the same
\* with context.Background())
CallFunctionContext(t) ==
  /\ StartOp(t)
  /\ \E ctx \in Contexts, cifNil \in BOOLEAN, fnNil \in BOOLEAN :
       LET err == CallGate(ctx, cifNil, fnNil)
       IN  IF err # NoError
           THEN /\ callOut' = [callOut EXCEPT ![t] =
                                 [NoCallOut EXCEPT !.how = "return", !.err = err,
                                                   !.ctx = ctx, !.cifNil = cifNil,
                                                   !.fnNil = fnNil]]
                /\ call' = [call EXCEPT ![t] = NoCall]
                /\ UNCHANGED pc
           ELSE /\ \E rvalueNil \in BOOLEAN, avalueLen \in {0, Len(cif.ArgTypes)} :
                     call' = [call EXCEPT ![t] =
                                [NoCall EXCEPT !.ctx = ctx, !.cifNil = cifNil,
                                               !.fnNil = fnNil,
                                               !.rvalueNil = rvalueNil,
                                               !.avalueLen = avalueLen, !.idx = 1]]
                /\ callOut' = [callOut EXCEPT ![t] = NoCallOut]
                /\ pc' = [pc EXCEPT ![t] = "ex_stage"]
  /\ rbuf' = [rbuf EXCEPT ![t] = FreshBuf]
  /\ UNCHANGED <<platform, descs, cif, descs0, prep, cbOnly, shape, comp, dec>>

\* one iteration of the marshalling loop of Execute; for a struct
\* argument under AAPCS64, its ensureStructLayout call
ExecuteStage(t) ==
  /\ pc[t] = "ex_stage"
  /\ LET c == call[t]
         i == c.idx
     IN  IF i > Len(cif.ArgTypes) \/ (platform # "windows_amd64" /\ i > c.avalueLen)
         THEN /\ pc' = [pc EXCEPT ![t] = "ex_native"]
              /\ UNCHANGED <<call, callOut, descs>>
         ELSE IF i > c.avalueLen
         THEN /\ callOut' = [callOut EXCEPT ![t] =
                               [NoCallOut EXCEPT !.how = "panic",
                                  !.err = RuntimePanic("index out of range"),
                                  !.ctx = c.ctx, !.cifNil = c.cifNil,
                                  !.fnNil = c.fnNil, !.rvalueNil = c.rvalueNil,
                                  !.avalueLen = c.avalueLen,
                                  !.regs = c.regs, !.stores = c.stores]]
              /\ call' = [call EXCEPT ![t] = NoCall]
              /\ pc' = [pc EXCEPT ![t] = "idle"]
              /\ UNCHANGED descs
         ELSE LET argType == cif.ArgTypes[i]
                  a == ArgAddr(t, i)
              IN  IF platform = "unix_arm64" /\ descs[argType].Kind = "StructType"
                  THEN \E e \in {ensureStructLayout(descs, argType)} :
                           /\ descs' = e.ds
                           /\ call' = [call EXCEPT ![t].stores = @ \cup e.stores]
                           /\ pc' = [pc EXCEPT ![t] = "ex_place"]
                           /\ UNCHANGED callOut
                  ELSE /\ call' = [call EXCEPT
                             ![t].idx = i + 1,
                             ![t].regs =
                               CASE platform = "unix_amd64" ->
                                      StageAMD64Unix(descs, argType, a, c.regs)
                                 [] platform = "windows_amd64" ->
                                      StageWindows(descs, argType, a, c.regs)
                                 [] OTHER ->
                                      StageARM64(descs, argType, a, c.regs)]
                       /\ UNCHANGED <<pc, callOut, descs>>
  /\ UNCHANGED <<platform, cif, rbuf, descs0, prep, opsLeft, started, cbOnly, shape, comp, dec>>

\* the rest of the struct case under AAPCS64: registers or by reference
ExecutePlace(t) ==
  /\ pc[t] = "ex_place"
  /\ \E r \in {StageStructARM64(descs, cif.ArgTypes[call[t].idx],
                                 ArgAddr(t, call[t].idx), call[t].regs)} :
       /\ descs' = r.ds
       /\ call' = [call EXCEPT ![t].idx = @ + 1, ![t].regs = r.regs,
                               ![t].stores = @ \cup r.stores]
  /\ pc' = [pc EXCEPT ![t] = "ex_stage"]
  /\ UNCHANGED <<platform, cif, rbuf, callOut, descs0, prep, opsLeft, started, cbOnly, shape, comp, dec>>

\* the native call, handleReturn and the return to the caller
ExecuteNative(t) ==
  /\ pc[t] = "ex_native"
  /\ \E c \in {call[t]}, r \in {CallAndReturn(descs, cif, call[t].rvalueNil,
                                                rbuf[t], call[t].regs)} :
         /\ rbuf' = [rbuf EXCEPT ![t] = r.buf]
         /\ callOut' = [callOut EXCEPT ![t] =
                          [NoCallOut EXCEPT !.how = "return", !.err = r.err,
                             !.ctx = c.ctx, !.cifNil = c.cifNil,
                             !.fnNil = c.fnNil, !.native = TRUE,
                             !.rvalueNil = c.rvalueNil,
                             !.avalueLen = c.avalueLen,
                             !.regs = c.regs, !.stores = c.stores]]
  /\ call' = [call EXCEPT ![t] = NoCall]
  /\ pc' = [pc EXCEPT ![t] = "idle"]
  /\ UNCHANGED <<platform, descs, cif, descs0, prep, opsLeft, started, cbOnly, shape, comp, dec>>

(***************************************************************************)
(* PrepareCallInterface, one compilation after another                     *)
(***************************************************************************)
\* what callers pass as convention: the sentinel, the three conventions
\* and a value outside the set
Conventions == {DefaultCall, UnixCallingConvention, WindowsCallingConvention,
                GnuWindowsCallingConvention, 4}
ReturnTypes == {NilDesc, "Void", "UInt64", "Pair", "Big", "BadKind"}
ArgLists == {<<>>, <<"Pointer">>, <<"SInt32", "Double">>,
             <<"Pointer", "Pointer", "Pointer", "Pointer", "Pointer">>,
             <<"UInt8", "Mixed">>, <<"Empty">>, <<"Small", "Nested">>,
             <<"Preset">>, <<"UInt8", "Wide">>,
             <<"BadMember">>, <<"NoMembers">>, <<NilDesc>>,
             <<"LateBad">>, <<"Floats3", "Pair">>, <<"SInt32", NilDesc>>}

NoPrep == [pc |-> "idle", how |-> "none", err |-> NoError, convention |-> 0,
           returnType |-> NilDesc, argTypes |-> <<>>, cifNil |-> FALSE,
           round |-> 0, first |-> [err |-> NoError, cif |-> NoCif]]

\* the nil checks of PrepareCallInterface on the recorded arguments
PrepareChecks(inputs) ==
  IF inputs.cifNil
  THEN [inputs EXCEPT !.pc = "idle", !.how = "return",
                      !.err = InvalidCallInterfaceError("cif")]
  ELSE IF inputs.returnType = NilDesc
  THEN [inputs EXCEPT !.pc = "idle", !.how = "return",
                      !.err = InvalidCallInterfaceError("returnType")]
  ELSE [inputs EXCEPT !.pc = "core", !.how = "none", !.err = NoError]

\* PrepareCallInterface: the nil checks
PrepareEnter ==
  /\ prep.pc = "idle"
  /\ prep.round = 0
  /\ opsLeft > MaxOps - MaxCompiles
  /\ opsLeft' = opsLeft - 1
  /\ \E cifNil \in BOOLEAN, convention \in Conventions, returnType \in ReturnTypes,
        argTypes \in ArgLists :
       prep' = PrepareChecks([NoPrep EXCEPT !.convention = convention,
                                            !.returnType = returnType,
                                            !.argTypes = argTypes,
                                            !.cifNil = cifNil,
                                            !.round = 1])
  /\ UNCHANGED <<platform, pc, started, descs, cif, call, rbuf, callOut, descs0, cbOnly, shape, comp, dec>>

\* PrepareCallInterface called a second time with the same arguments and the
\* same descriptors, on a fresh CallInterface; the first result is kept
PrepareAgain ==
  /\ prep.pc = "idle"
  /\ prep.round = 1
  /\ prep.how = "return"
  /\ prep' = PrepareChecks([prep EXCEPT !.round = 2, !.first = [err |-> prep.err, cif |-> cif]])
  /\ cif' = NoCif
  /\ UNCHANGED <<platform, pc, opsLeft, started, descs, call, rbuf, callOut, descs0, cbOnly, shape, comp, dec>>

\* prepareCallInterfaceCore up to preparePlatformSpecific
PrepareCore ==
  /\ prep.pc = "core"
  /\ \E r \in {prepareCallInterfaceCore(descs, cif, prep.convention,
                                         Len(prep.argTypes), prep.returnType,
                                         prep.argTypes)} :
         /\ cif' = r.cif
         /\ descs' = r.ds
         /\ prep' = IF r.err = NoError THEN [prep EXCEPT !.pc = "platform"]
                    ELSE [prep EXCEPT !.pc = "idle", !.err = r.err,
                            !.how = IF r.err.type = "panic" THEN "panic" ELSE "return"]
  /\ UNCHANGED <<platform, pc, opsLeft, started, call, rbuf, callOut, descs0, cbOnly, shape, comp, dec>>

PreparePlatform ==
  /\ prep.pc = "platform"
  /\ \E r \in {preparePlatformSpecific(descs, cif)} :
         /\ cif' = r.cif
         /\ descs' = r.ds
         /\ prep' = [prep EXCEPT !.pc = "idle", !.how = "return", !.err = r.err]
  /\ UNCHANGED <<platform, pc, opsLeft, started, call, rbuf, callOut, descs0, cbOnly, shape, comp, dec>>

(***************************************************************************)
(* Layout and classification of one struct descriptor                      *)
(***************************************************************************)
\* The struct S is built by the caller from up to MaxMembers members, which
\* are predefined scalars, a descriptor of unknown kind, or the struct Inner,
\* itself built by the caller.  Both start with their layout unset.
MaxMembers == 3
MemberNames == {"Float", "Double", "SInt32", "UInt8", "Int", "Inner", "BadKind"}
ShapeMembers == UNION {[1..n -> MemberNames] : n \in 0..MaxMembers}
InnerMembers == {<<>>, <<"Float">>, <<"Float", "Float">>, <<"Double", "Double">>,
                 <<"Float", "Double">>, <<"SInt32">>, <<"BadKind">>,
                 <<"UInt8", "BadKind">>}
ShapeTables ==
  {[DescTable0 EXCEPT !["S"] = Desc("StructType", 0, 0, ms),
                      !["Inner"] = Desc("StructType", 0, 0, ims)] :
     ms \in ShapeMembers, ims \in InnerMembers}
  \cup {[DescTable0 EXCEPT !["S"] = DescNoMembers(0, 0)],
        [DescTable0 EXCEPT !["Inner"] = DescNoMembers(0, 0)]}

NoShape == [laid |-> "no", op |-> "none", err |-> NoError,
            flags |-> Flags(0, FALSE, 0), GPRCount |-> 0, FPRCount |-> 0,
            isHFA |-> FALSE, hfaCount |-> 0, role |-> "none", cif |-> NoCif,
            regs0 |-> NoRegs, staged |-> NoRegs]

\* the register counts classifyArgumentARM64 returns, with its locals
\* isHFA and hfaCount
classifyArgumentCounts(ds, t) ==
  LET k == ds[t].Kind
      counted(r, hfa) ==
        IF hfa.isHFA /\ hfa.count <= 4
        THEN [GPRCount |-> 0, FPRCount |-> hfa.count,
              isHFA |-> hfa.isHFA, hfaCount |-> hfa.count]
        ELSE IF r[t].Size > 16
        THEN [GPRCount |-> 1, FPRCount |-> 0,
              isHFA |-> hfa.isHFA, hfaCount |-> hfa.count]
        ELSE LET usage(u) == [GPRCount |-> u.intCount, FPRCount |-> u.floatCount,
                              isHFA |-> hfa.isHFA, hfaCount |-> hfa.count]
             IN  usage(countStructRegUsage(r, t))
      laidOut(r) == counted(r, isHomogeneousFloatAggregate(r, t))
  IN  CASE k \in {"FloatType", "DoubleType"} ->
             [GPRCount |-> 0, FPRCount |-> 1, isHFA |-> FALSE, hfaCount |-> 0]
        [] k = "StructType" -> laidOut(ensureStructLayout(ds, t).ds)
        [] OTHER -> [GPRCount |-> (ds[t].Size + 7) \div 8, FPRCount |-> 0,
                     isHFA |-> FALSE, hfaCount |-> 0]

\* initializeCompositeType(S)
LayoutComposite ==
  /\ shape.laid = "no"
  /\ shape.op = "none"
  /\ \E r \in {initializeCompositeType(descs, "S")} :
       /\ descs' = r.ds
       /\ shape' = [shape EXCEPT !.laid = "composite", !.err = r.err]
  /\ UNCHANGED <<cbVars, cif, call, rbuf, callOut, descs0, prep, comp, dec>>

\* ensureStructLayout(S)
LayoutEnsure ==
  /\ platform = "unix_arm64"
  /\ shape.laid = "no"
  /\ shape.op = "none"
  /\ \E r \in {ensureStructLayout(descs, "S")} :
       /\ descs' = r.ds
       /\ shape' = [shape EXCEPT !.laid = "ensure"]
  /\ UNCHANGED <<cbVars, cif, call, rbuf, callOut, descs0, prep, comp, dec>>

\* classifyReturnARM64(S)
ClassifyReturnARM64 ==
  /\ platform = "unix_arm64"
  /\ shape.op = "none"
  /\ shape.err = NoError
  /\ \E r \in {classifyReturnARM64(descs, "S")} :
       /\ descs' = r.ds
       /\ shape' = [shape EXCEPT !.op = "classifyReturn", !.flags = r.flags]
  /\ UNCHANGED <<cbVars, cif, call, rbuf, callOut, descs0, prep, comp, dec>>

\* classifyArgumentARM64(S)
ClassifyArgumentARM64 ==
  /\ platform = "unix_arm64"
  /\ shape.op = "none"
  /\ shape.err = NoError
  /\ \E r \in {classifyArgumentCounts(descs, "S")} :
       shape' = [shape EXCEPT !.op = "classifyArgument",
                              !.GPRCount = r.GPRCount, !.FPRCount = r.FPRCount,
                              !.isHFA = r.isHFA, !.hfaCount = r.hfaCount]
  /\ descs' = classifyArgumentARM64(descs, "S")
  /\ UNCHANGED <<cbVars, cif, call, rbuf, callOut, descs0, prep, comp, dec>>

\* the registers the arguments before the struct have taken: none, or all
\* floating registers but one
StagedBefore == {NoRegs, [gpr |-> <<>>, fpr |-> [k \in 1..(numFloatRegs - 1) |-> k]]}
\* avalue[idx] of the struct argument
StructAddr == ArgAddr(1, 1)

\* case types.StructType of the loop of Execute, AAPCS64, on S
ExecuteStructARM64 ==
  /\ platform = "unix_arm64"
  /\ shape.op = "none"
  /\ shape.err = NoError
  /\ \E rg \in StagedBefore :
       \E r \in {StageStructARM64(ensureStructLayout(descs, "S").ds, "S",
                                   StructAddr, rg)} :
         /\ descs' = r.ds
         /\ shape' = [shape EXCEPT !.op = "execute", !.regs0 = rg,
                                   !.staged = r.regs]
  /\ UNCHANGED <<cbVars, cif, call, rbuf, callOut, descs0, prep, comp, dec>>

\* classifyReturnAMD64(S), on a descriptor whose layout is known
ClassifyReturnAMD64 ==
  /\ platform # "unix_arm64"
  /\ shape.laid = "composite"
  /\ shape.op = "none"
  /\ shape.err = NoError
  /\ shape' = [shape EXCEPT !.op = "classifyReturn",
                            !.flags = classifyReturnAMD64(descs["S"])]
  /\ UNCHANGED <<cbVars, descs, cif, call, rbuf, callOut, descs0, prep, comp, dec>>

\* PrepareCallInterface with S as the return type or as the only argument
CompileShape ==
  /\ shape.laid = "no"
  /\ shape.op = "none"
  /\ \E role \in {"return", "argument"} :
       \E r \in {IF role = "return"
                 THEN PrepareCallInterface(descs, NoCif, FALSE, DefaultCall, "S", <<>>)
                 ELSE PrepareCallInterface(descs, NoCif, FALSE, DefaultCall, "Void",
                                           <<"S">>)} :
         /\ descs' = r.ds
         /\ shape' = [shape EXCEPT !.op = "compile", !.role = role, !.err = r.err,
                                   !.cif = r.cif, !.flags = r.cif.Flags]
  /\ UNCHANGED <<cbVars, cif, call, rbuf, callOut, descs0, prep, comp, dec>>

(***************************************************************************)
(* Concurrent compilations that share a struct descriptor                   *)
(***************************************************************************)
\* Each thread calls PrepareCallInterface(cif, DefaultCall, s, {s}) with a
\* CallInterface of its own and the same struct descriptor s, whose members
\* are scalars.  The descriptor's fields are plain memory: every statement
\* that reads or writes them is a step of its own.
SharedStructs == {"Pair", "Mixed", "Small"}

NoComp == [pc |-> "idle", phase |-> "none", struct |-> NilDesc, j |-> 0,
           stackBytes |-> 0, cif |-> NoCif, laid |-> FALSE]

\* the statement at c.pc of prepareCallInterfaceCore / initializeCompositeType
\* / preparePlatformSpecific, run on the descriptors ds with the locals c
CompileStatement(ds, c) ==
  LET s == c.struct
      member == ds[s].Members[c.j]
      platformDone(r) == [ds |-> r.ds, c |-> [c EXCEPT !.cif = r.cif, !.pc = "done"]]
  IN  CASE c.pc = "check" ->
             [ds |-> ds,
              c |-> [c EXCEPT !.pc = IF ds[s].Size = 0 /\ ds[s].Kind = "StructType"
                                     THEN "reset_size" ELSE "valid"]]
        [] c.pc = "reset_size" ->
             [ds |-> [ds EXCEPT ![s].Size = 0],
              c |-> [c EXCEPT !.pc = "reset_align", !.laid = TRUE]]
        [] c.pc = "reset_align" ->
             [ds |-> [ds EXCEPT ![s].Alignment = 0],
              c |-> [c EXCEPT !.pc = IF Len(ds[s].Members) = 0 THEN "final"
                                     ELSE "m_align",
                              !.j = 1]]
        [] c.pc = "m_align" ->
             [ds |-> [ds EXCEPT ![s].Size = align(@, ds[member].Alignment)],
              c |-> [c EXCEPT !.pc = "m_add"]]
        [] c.pc = "m_add" ->
             [ds |-> [ds EXCEPT ![s].Size = ToUintptr(@ + ds[member].Size)],
              c |-> [c EXCEPT !.pc = "m_max"]]
        [] c.pc = "m_max" ->
             [ds |-> [ds EXCEPT ![s].Alignment = IF ds[member].Alignment > @
                                                 THEN ds[member].Alignment ELSE @],
              c |-> [c EXCEPT !.pc = IF c.j + 1 > Len(ds[s].Members) THEN "final"
                                     ELSE "m_align",
                              !.j = @ + 1]]
        [] c.pc = "final" ->
             [ds |-> [ds EXCEPT ![s].Size = align(@, ds[s].Alignment)],
              c |-> [c EXCEPT !.pc = "valid"]]
        [] c.pc = "valid" ->
             [ds |-> ds,
              c |-> IF c.phase = "ret" THEN [c EXCEPT !.phase = "arg", !.pc = "check"]
                    ELSE [c EXCEPT !.pc = "stack_align"]]
        [] c.pc = "stack_align" ->
             [ds |-> ds,
              c |-> [c EXCEPT !.stackBytes = align(@, ds[s].Alignment),
                              !.pc = "stack_add"]]
        [] c.pc = "stack_add" ->
             [ds |-> ds,
              c |-> [c EXCEPT !.stackBytes = ToUintptr(@ + align(ds[s].Size, 8)),
                              !.pc = "platform"]]
        [] c.pc = "platform" ->
             platformDone(preparePlatformSpecific(
                            ds, [c.cif EXCEPT !.StackBytes = c.stackBytes]))

\* PrepareCallInterface up to the first read of the descriptor
CompileBegin(t) ==
  /\ comp[t].pc = "idle"
  /\ comp' = [comp EXCEPT ![t] =
                [@ EXCEPT !.pc = "check", !.phase = "ret",
                          !.cif = [NoCif EXCEPT
                                     !.Convention = DefaultConvention(platform),
                                     !.ArgCount = 1,
                                     !.ArgTypes = <<comp[t].struct>>,
                                     !.ReturnType = comp[t].struct]]]
  /\ UNCHANGED <<cbVars, descs, cif, call, rbuf, callOut, descs0, prep, shape, dec>>

\* the next statement of thread t
CompileStep(t) ==
  /\ comp[t].pc \notin {"idle", "done"}
  /\ \E r \in {CompileStatement(descs, comp[t])} :
       /\ descs' = r.ds
       /\ comp' = [comp EXCEPT ![t] = r.c]
  /\ UNCHANGED <<cbVars, cif, call, rbuf, callOut, descs0, prep, shape, dec>>

(***************************************************************************)
(* Specifications                                                          *)
(***************************************************************************)
\* the callback registry before any registration
IdleCallbacks ==
  /\ trampolineBaseAddr \in TrampolineBases
  /\ count0 = 0
  /\ count = 0
  /\ funcs = [prefix |-> 0, over |-> [k \in {} |-> NoFunc]]
  /\ mu = 0
  /\ val = [t \in Threads |-> NoFunc]
  /\ idx = [t \in Threads |-> 0]
  /\ cbArgs = [t \in Threads |-> [index |-> 0, frame |-> 0, result |-> 0]]
  /\ cbFn = [t \in Threads |-> NoFunc]
  /\ outcome = [t \in Threads |-> NoOutcome]
  /\ regs = <<>>
  /\ inClosure = {}

\* no call in progress, nothing compiled
IdleCalls ==
  /\ call = [t \in Threads |-> NoCall]
  /\ rbuf = [t \in Threads |-> FreshBuf]
  /\ callOut = [t \in Threads |-> NoCallOut]
  /\ prep = NoPrep
  /\ shape = NoShape
  /\ comp = [t \in Threads |-> NoComp]
  /\ dec = NoDec

\* signatures of the functions the callers of SpecCall invoke
CallSignatures ==
  {[returnType |-> "UInt64", argTypes |-> <<"Pointer">>],
   [returnType |-> "Double", argTypes |-> <<"Double", "Float">>],
   [returnType |-> "SInt32", argTypes |-> <<"SInt32", "UInt8", "Pointer">>],
   [returnType |-> "Void", argTypes |-> <<>>],
   [returnType |-> "Pair", argTypes |-> <<"Pair">>],
   [returnType |-> "UInt64", argTypes |-> <<"Mixed", "Empty">>],
   [returnType |-> "Big", argTypes |-> <<"Preset">>],
   [returnType |-> "Void",
    argTypes |-> <<"UInt64", "UInt64", "UInt64", "UInt64", "UInt64", "UInt64",
                   "UInt64">>],
   [returnType |-> "Void",
    argTypes |-> <<"Mixed", "Mixed", "Mixed", "Mixed", "UInt64">>],
   [returnType |-> "S", argTypes |-> <<"Float", "UInt8">>],
   [returnType |-> "Float", argTypes |-> <<"UInt8", "Float">>],
   [returnType |-> "SInt32", argTypes |-> <<"SInt16", "UInt16">>],
   [returnType |-> "Int", argTypes |-> <<"UInt64">>]}

Init ==
  /\ InitCallbacks
  /\ IdleCalls
  /\ descs = DescTable0
  /\ descs0 = DescTable0
  /\ cif = NoCif
Next == NextCallbacks
Spec == Init /\ [][Next]_vars

\* the steps a thread takes once it is inside NewCallback or callbackWrap.
\* The Go scheduler runs every runnable goroutine, and a goroutine waiting
\* in sync.Mutex.Lock is woken once the mutex is free: weak fairness of each
\* thread's steps.  Entering an operation is the caller's choice and is not
\* forced.
Proceed(t) ==
  \/ NewCallbackLock(t)
  \/ NewCallbackCheck(t)
  \/ NewCallbackStore(t)
  \/ NewCallbackIncr(t)
  \/ NewCallbackReturn(t)
  \/ CallbackWrapLock(t)
  \/ CallbackWrapFetch(t)
  \/ CallbackWrapUnlock(t)
  \/ CallbackWrapCall(t)
\* the registry is empty, or one registration away from its capacity
InitLive ==
  /\ platform \in CallbackPlatforms
  /\ trampolineBaseAddr \in TrampolineBases
  /\ count0 \in {0, maxCallbacks - 1}
  /\ count = count0
  /\ funcs = [prefix |-> count0, over |-> [k \in {} |-> NoFunc]]
  /\ mu = 0
  /\ pc = [t \in Threads |-> "idle"]
  /\ val = [t \in Threads |-> NoFunc]
  /\ idx = [t \in Threads |-> 0]
  /\ cbArgs = [t \in Threads |-> [index |-> 0, frame |-> 0, result |-> 0]]
  /\ cbFn = [t \in Threads |-> NoFunc]
  /\ outcome = [t \in Threads |-> NoOutcome]
  /\ regs = <<>>
  /\ opsLeft = MaxOps
  /\ started = {}
  /\ inClosure = {}
  /\ IdleCalls
  /\ descs = DescTable0
  /\ descs0 = DescTable0
  /\ cif = NoCif
SpecLive == InitLive /\ [][Next]_vars /\ \A t \in Threads : WF_vars(Proceed(t))

\* the callers share one CallInterface, compiled before the first call
InitCall ==
  /\ platform \in Platforms
  /\ IdleCallbacks
  /\ IdleCalls
  /\ pc = [t \in Threads |-> "idle"]
  /\ opsLeft = MaxOps
  /\ started = {}
  /\ \E sig \in CallSignatures :
       \E r \in {PrepareCallInterface(DescTable0, NoCif, FALSE, DefaultCall,
                                       sig.returnType, sig.argTypes)} :
           /\ r.err = NoError
           /\ cif = r.cif
           /\ descs = r.ds
           /\ descs0 = r.ds
NextCall ==
  \E t \in Threads :
    \/ CallFunctionContext(t)
    \/ ExecuteStage(t)
    \/ ExecutePlace(t)
    \/ ExecuteNative(t)
SpecCall == InitCall /\ [][NextCall]_vars

\* native code calls a registered closure of any of the parameter lists
InitDecode ==
  /\ platform \in CallbackPlatforms
  /\ IdleCallbacks
  /\ pc = [t \in Threads |-> "idle"]
  /\ opsLeft = MaxOps
  /\ started = {}
  /\ descs = DescTable0
  /\ descs0 = DescTable0
  /\ cif = NoCif
  /\ call = [t \in Threads |-> NoCall]
  /\ rbuf = [t \in Threads |-> FreshBuf]
  /\ callOut = [t \in Threads |-> NoCallOut]
  /\ prep = NoPrep
  /\ shape = NoShape
  /\ comp = [t \in Threads |-> NoComp]
  /\ \E sig \in DecodeSignatures, s \in Frames :
       dec = [pc |-> "loop", ins |-> sig, frame |-> s, args |-> <<>>]
NextDecode == CallbackWrapDecode
SpecDecode == InitDecode /\ [][NextDecode]_vars

InitPrepare ==
  /\ platform \in Platforms
  /\ IdleCallbacks
  /\ IdleCalls
  /\ pc = [t \in Threads |-> "idle"]
  /\ opsLeft = MaxOps
  /\ started = {}
  /\ descs = DescTable0
  /\ descs0 = DescTable0
  /\ cif = NoCif
NextPrepare == PrepareEnter \/ PrepareCore \/ PreparePlatform \/ PrepareAgain
SpecPrepare == InitPrepare /\ [][NextPrepare]_vars

\* one struct descriptor is laid out, classified or compiled
InitShape ==
  /\ platform \in Platforms
  /\ IdleCallbacks
  /\ IdleCalls
  /\ pc = [t \in Threads |-> "idle"]
  /\ opsLeft = MaxOps
  /\ started = {}
  /\ descs \in ShapeTables
  /\ descs0 = descs
  /\ cif = NoCif
NextShape ==
  \/ LayoutComposite \/ LayoutEnsure \/ ClassifyReturnARM64
  \/ ClassifyArgumentARM64 \/ ClassifyReturnAMD64 \/ CompileShape
  \/ ExecuteStructARM64
SpecShape == InitShape /\ [][NextShape]_vars

\* the threads compile concurrently, sharing one struct descriptor
InitRace ==
  /\ platform \in Platforms
  /\ IdleCallbacks
  /\ pc = [t \in Threads |-> "idle"]
  /\ opsLeft = MaxOps
  /\ started = {}
  /\ call = [t \in Threads |-> NoCall]
  /\ rbuf = [t \in Threads |-> FreshBuf]
  /\ callOut = [t \in Threads |-> NoCallOut]
  /\ prep = NoPrep
  /\ shape = NoShape
  /\ dec = NoDec
  /\ descs = DescTable0
  /\ descs0 = DescTable0
  /\ cif = NoCif
  /\ \E s \in SharedStructs : comp = [t \in Threads |-> [NoComp EXCEPT !.struct = s]]
NextRace == \E t \in Threads : CompileBegin(t) \/ CompileStep(t)
SpecRace == InitRace /\ [][NextRace]_vars


(***************************************************************************)
(* Claims about the callback registry                                      *)
(***************************************************************************)
LimitPanic == "panic:ffi: callback limit reached (2000 callbacks maximum)"
Stride == IF platform = "unix_amd64" THEN 5 ELSE 8
AllIdle == \A t \in Threads : pc[t] = "idle"

\* C1: exactly 2000 registrations can succeed: the count and the number of
\* successful registrations never exceed 2000, and a registration that
\* reaches the capacity test while the count is 2000 panics with the limit
\* message and leaves the slots, the count and the successes unchanged.
C1_CapacityLimit ==
  [][ /\ count' <= maxCallbacks
      /\ count0 + Len(regs') <= maxCallbacks
      /\ \A t \in Threads :
           (pc[t] = "nc_check" /\ count = maxCallbacks /\ pc'[t] # "nc_check")
             => /\ outcome'[t].how = LimitPanic
                /\ funcs' = funcs
                /\ count' = count
                /\ regs' = regs ]_vars

C1_Witness ==
  /\ count = maxCallbacks
  /\ count0 + Len(regs) = maxCallbacks
  /\ Len(regs) = NearLimit
  /\ \E t \in Threads : outcome[t].how = LimitPanic

\* C2: the registry is append-only: a filled slot keeps its closure and the
\* count never decreases, whatever registrations and dispatches follow.
C2_AppendOnly ==
  [][ /\ funcs'.prefix = funcs.prefix
      /\ \A k \in (DOMAIN funcs.over \cup DOMAIN funcs'.over) \cap Slots :
           FuncAt(funcs, k) # NoFunc => FuncAt(funcs', k) = FuncAt(funcs, k)
      /\ count' >= count ]_vars

C2_Witness ==
  /\ Len(regs) >= 2
  /\ \E t \in Threads : outcome[t].op = "dispatch" /\ outcome[t].how = "return"

\* C3: the address returned by the registration that filled slot k is
\* base + k * stride (5 on amd64, 8 on arm64), so returned addresses are
\* pairwise distinct and lie in [base, base + 2000 * stride).
C3_EntryAddress ==
  \A n \in 1..Len(regs) :
    /\ regs[n].idx < count
    /\ FuncAt(funcs, regs[n].idx) = regs[n].val
    /\ regs[n].addr = trampolineBaseAddr + regs[n].idx * Stride
    /\ regs[n].addr >= trampolineBaseAddr
    /\ regs[n].addr < trampolineBaseAddr + maxCallbacks * Stride
    /\ \A m \in 1..Len(regs) : m # n => regs[m].addr # regs[n].addr

C3_Witness ==
  /\ Len(regs) >= 2
  /\ regs[2].idx > 0
  /\ regs[2].addr > trampolineBaseAddr

\* C4: concurrent registrations get pairwise distinct slot indices, and once
\* all of them have returned the count is the initial count plus the number
\* of successful registrations.
C4_NoLostRegistration ==
  /\ \A n, m \in 1..Len(regs) : n # m => regs[n].idx # regs[m].idx
  /\ \A n \in 1..Len(regs) : regs[n].idx >= count0
  /\ AllIdle => count = count0 + Len(regs)

C4_Witness ==
  /\ AllIdle
  /\ Len(regs) >= 2
  /\ regs[1].by # regs[2].by

\* C5: a dispatch entered with the index of slot k runs the closure that was
\* registered into slot k and reports that closure's return value, also
\* while another thread is registering or dispatching.
C5_DispatchOwnClosure ==
  \A t \in Threads :
    outcome[t].op = "dispatch" =>
      LET f == RegisteredAt(outcome[t].index)
      IN  /\ outcome[t].how = "return"
          /\ f # NoFunc
          /\ outcome[t].fn = f
          /\ outcome[t].value =
               EncodeResult(f, CallClosure(f,
                 DecodeArgs(TypeOf(f).in, outcome[t].frame, 1, 0, 0,
                            numFloatRegs + numIntRegs)))

C5_Witness ==
  \E t1, t2 \in Threads :
    /\ t1 # t2
    /\ outcome[t1].op = "dispatch"
    /\ outcome[t1].how = "return"
    /\ outcome[t1].index >= count0
    /\ pc[t2] \in {"nc_store", "nc_incr", "nc_ret"}


(***************************************************************************)
(* Calls through a compiled CallInterface: C6 .. C9, under SpecCall        *)
(***************************************************************************)
Cancelled == {"Canceled", "DeadlineExceeded"}
InExecute(t) == pc[t] \in {"ex_stage", "ex_place", "ex_native"}

\* C6: when the context handed to CallFunctionContext is already cancelled
\* or past its deadline at entry, the call returns exactly ctx.Err(), the
\* native function is never invoked and the result buffer is not written,
\* whatever cif and fn are (nil or not); no call with such a context is ever
\* inside Execute.
C6_CancelledAtEntry ==
  \A t \in Threads :
    /\ InExecute(t) => call[t].ctx \notin Cancelled
    /\ callOut[t].ctx \in Cancelled =>
         /\ callOut[t].how = "return"
         /\ callOut[t].err = ContextError(callOut[t].ctx)
         /\ ~callOut[t].native
         /\ rbuf[t] = FreshBuf

\* a call entered with an expired deadline and nil cif and fn has returned
\* the deadline error
C6_Witness ==
  \E t \in Threads :
    /\ callOut[t].ctx = "DeadlineExceeded"
    /\ callOut[t].cifNil /\ callOut[t].fnNil
    /\ callOut[t].err = ContextError("DeadlineExceeded")

RECURSIVE ExecuteAlone(_, _, _, _, _)
\* Execute's marshalling loop run by thread t with nobody else running,
\* from argument i on: the registers it stages and the descriptors it leaves
ExecuteAlone(ds, t, avalueLen, i, rg) ==
  IF i > Len(cif.ArgTypes) \/ i > avalueLen THEN [ds |-> ds, regs |-> rg]
  ELSE LET argType == cif.ArgTypes[i]
           a == ArgAddr(t, i)
       IN  IF platform = "unix_arm64" /\ ds[argType].Kind = "StructType"
           THEN LET r == StageStructARM64(ensureStructLayout(ds, argType).ds,
                                          argType, a, rg)
                IN  ExecuteAlone(r.ds, t, avalueLen, i + 1, r.regs)
           ELSE ExecuteAlone(ds, t, avalueLen, i + 1,
                             CASE platform = "unix_amd64" ->
                                    StageAMD64Unix(ds, argType, a, rg)
                               [] platform = "windows_amd64" ->
                                    StageWindows(ds, argType, a, rg)
                               [] OTHER -> StageARM64(ds, argType, a, rg))

\* what the caller of a finished call of thread t sees, against the same
\* call executed alone on the CallInterface as it was compiled
ResultAsAlone(t) ==
  LET o == callOut[t]
      alone == ExecuteAlone(descs0, t, o.avalueLen, 1, NoRegs)
      ret == CallAndReturn(alone.ds, cif, o.rvalueNil, FreshBuf, alone.regs)
  IN  o.native => /\ o.regs = alone.regs
                  /\ o.err = ret.err
                  /\ rbuf[t] = ret.buf

\* the values of the CallInterface and of its descriptors are those the
\* compilation left
CompiledValuesKept ==
  /\ descs = descs0
  /\ cif = PrepareCallInterface(DescTable0, NoCif, FALSE, DefaultCall,
                                cif.ReturnType, cif.ArgTypes).cif

\* every finished call saw what it would have seen alone, and no value of
\* the shared CallInterface or of its descriptors ever differs from the
\* compiled one
C7_ValuesAsAlone ==
  /\ CompiledValuesKept
  /\ \A t \in Threads : ResultAsAlone(t)

\* C7: under any interleaving of threads invoking the same compiled
\* CallInterface with their own argument and result buffers, each call's
\* result equals what it would be if executed alone, and the invocation
\* path stores to no field of the CallInterface or of the type descriptors
\* it references.
C7_SharedInterfaceReadOnly ==
  /\ C7_ValuesAsAlone
  /\ \A t \in Threads : call[t].stores = {} /\ callOut[t].stores = {}

\* two threads are inside Execute on the same CallInterface and one of them
\* has stored to the Size field of the shared descriptor of an argument
C7_Witness ==
  \E t, u \in Threads :
    /\ t # u
    /\ InExecute(t) /\ InExecute(u)
    /\ \E i \in 1..Len(cif.ArgTypes) : <<cif.ArgTypes[i], "Size">> \in call[t].stores

\* the argument the marshalling loop of thread t has just staged is
\* pointer-typed (0 when it is not, or when nothing has been staged)
JustStagedPointer(t) ==
  LET i == call[t].idx - 1
  IN  IF /\ pc[t] = "ex_stage"
         /\ i >= 1
         /\ i <= call[t].avalueLen
         /\ descs[cif.ArgTypes[i]].Kind = "PointerType"
      THEN i ELSE 0

\* C8: for every pointer-typed argument i, the value staged for the callee
\* is the pointer stored at the location argv[i] addresses, never the
\* address argv[i] itself, under every convention.
C8_PointerArgDereferenced ==
  \A t \in Threads :
    LET i == JustStagedPointer(t)
        gpr == call[t].regs.gpr
    IN  i # 0 => /\ Len(gpr) > 0
                 /\ gpr[Len(gpr)] = Load(ArgAddr(t, i), 8)

\* under System V AMD64 a pointer argument has been staged as the address
\* of its cell, which is not the pointer the cell holds
C8_Witness ==
  \E t \in Threads :
    LET i == JustStagedPointer(t)
        gpr == call[t].regs.gpr
    IN  /\ platform = "unix_amd64"
        /\ i # 0
        /\ gpr[Len(gpr)] = ArgAddr(t, i)
        /\ ArgAddr(t, i) # Load(ArgAddr(t, i), 8)

\* C9: with a context that is not cancelled, a nil cif or a nil fn makes
\* CallFunctionContext (and CallFunction) return an InvalidCallInterface
\* error naming the field, cif before fn, and the call never reaches the
\* native function.
C9_NilPointerRejected ==
  \A t \in Threads :
    /\ InExecute(t) => ~call[t].cifNil /\ ~call[t].fnNil
    /\ (callOut[t].ctx = "Background" /\ (callOut[t].cifNil \/ callOut[t].fnNil)) =>
         /\ callOut[t].how = "return"
         /\ callOut[t].err =
              InvalidCallInterfaceError(IF callOut[t].cifNil THEN "cif" ELSE "fn")
         /\ ~callOut[t].native
         /\ rbuf[t] = FreshBuf

\* a call with a live context and both pointers nil has been refused with
\* the error naming cif
C9_Witness ==
  \E t \in Threads :
    /\ callOut[t].ctx = "Background"
    /\ callOut[t].cifNil /\ callOut[t].fnNil
    /\ callOut[t].err = InvalidCallInterfaceError("cif")

(***************************************************************************)
(* PrepareCallInterface: C10, under SpecPrepare                            *)
(***************************************************************************)
\* PrepareCallInterface has returned nil
Compiled == prep.pc = "idle" /\ prep.how = "return" /\ prep.err = NoError

\* C10: every CallInterface that PrepareCallInterface compiles successfully
\* has StackBytes a multiple of 8 and, under the Win64 convention, at
\* least 32, also when there are no arguments or all of them fit in
\* registers.
C10_StackBytes ==
  Compiled =>
    /\ cif.StackBytes % 8 = 0
    /\ cif.Convention = WindowsCallingConvention => cif.StackBytes >= 32

\* a Win64 CallInterface with one pointer argument, which fits in a
\* register, compiled with 32 bytes of stack
C10_Witness ==
  /\ Compiled
  /\ cif.Convention = WindowsCallingConvention
  /\ cif.ArgTypes = <<"Pointer">>
  /\ cif.StackBytes = 32

(***************************************************************************)
(* Claims C11..C20                                                         *)
(***************************************************************************)
\* the second PrepareCallInterface of the same arguments has finished
Recompiled == prep.round = 2 /\ prep.pc = "idle"

IsMultiple(a, b) == \E k \in 0..a : a = k * b

MaxOf(set) == CHOOSE x \in set : \A y \in set : y <= x

\* the struct named t has been laid out: what the claim says of it
LayoutRule(t) ==
  /\ IsMultiple(descs[t].Size, descs[t].Alignment)
  /\ descs[t].Alignment =
       MaxOf({descs[descs[t].Members[i]].Alignment : i \in 1..Len(descs[t].Members)})

\* S has been laid out by initializeCompositeType or by ensureStructLayout
LaidOut == shape.laid # "no" /\ shape.err = NoError

\* C12: after the layout of a struct with at least one member, by
\* initializeCompositeType or by ensureStructLayout, its Size is a multiple
\* of its Alignment and its Alignment is the largest alignment among its
\* members; the same holds of a nested struct laid out on the way.
C12_LayoutRule ==
  LaidOut =>
    /\ Len(descs["S"].Members) > 0 => LayoutRule("S")
    /\ \A i \in 1..Len(descs["S"].Members) :
         (descs["S"].Members[i] = "Inner" /\ Len(descs["Inner"].Members) > 0)
           => LayoutRule("Inner")

\* a struct with padding between and after its members, and a nested struct,
\* have been laid out
C12_Witness ==
  /\ LaidOut
  /\ descs["S"].Members = <<"UInt8", "Inner", "UInt8">>
  /\ descs["Inner"].Members = <<"Double", "Double">>
  /\ descs["S"].Size = 32
  /\ descs["S"].Alignment = 8

\* the struct named t, as the caller built it, has a member of unknown kind
\* at some nesting depth
RECURSIVE HasBadMember(_, _)
HasBadMember(ds, t) ==
  \E i \in 1..Len(ds[t].Members) :
    \/ ~isValidType(ds[ds[t].Members[i]])
    \/ /\ ds[ds[t].Members[i]].Kind = "StructType"
       /\ HasBadMember(ds, ds[t].Members[i])

\* PrepareCallInterface was given S, as the return type or as the argument
CompiledShape == shape.op = "compile"

\* C13: compilation fails with a type-validation error whenever the return
\* type or an argument type is a struct with no members (a nil or a
\* zero-length member list) or with a member of unknown kind at any depth.
C13_InvalidStructRejected ==
  (CompiledShape /\ (Len(descs0["S"].Members) = 0 \/ HasBadMember(descs0, "S")))
    => shape.err.type = "TypeValidationError"

\* C13, the part that holds: a nil member list and a member of unknown kind
\* at any depth are rejected with a type-validation error
C13_NilOrBadKindRejected ==
  (CompiledShape /\ (descs0["S"].MembersNil \/ HasBadMember(descs0, "S")))
    => shape.err.type = "TypeValidationError"

\* a struct with a zero-length member list was compiled
C13_Witness ==
  /\ CompiledShape
  /\ Len(descs0["S"].Members) = 0
  /\ ~descs0["S"].MembersNil

\* a PrepareCallInterface call is over whose arguments pass every check that
\* comes before the argument types
ReachedArguments ==
  /\ prep.round >= 1
  /\ prep.pc = "idle"
  /\ ~prep.cifNil
  /\ prep.returnType \in {"Void", "UInt64"}
  /\ prep.convention \in DefaultCall..GnuWindowsCallingConvention

\* C14: PrepareCallInterface with a nil entry at index i of argTypes returns
\* an InvalidCallInterface or TypeValidation error that carries the index i;
\* it neither panics nor succeeds.
C14_NilArgumentError ==
  \A i \in 1..Len(prep.argTypes) :
    (ReachedArguments /\ prep.argTypes[i] = NilDesc
       /\ \A j \in 1..(i - 1) : prep.argTypes[j] # NilDesc)
      => /\ prep.how = "return"
         /\ prep.err.type \in {"InvalidCallInterfaceError", "TypeValidationError"}
         /\ prep.err.index = i - 1

\* a call with a nil argument type after a valid one is over
C14_Witness ==
  /\ ReachedArguments
  /\ prep.argTypes = <<"SInt32", NilDesc>>

\* the kinds of the leaves of the struct named t, in declaration order,
\* descending through nested structs; a struct without members counts as
\* one leaf of kind "EmptyStruct"
RECURSIVE Leaves(_, _), LeavesFrom(_, _, _)
Leaves(ds, t) ==
  IF ds[t].Kind # "StructType" THEN <<ds[t].Kind>>
  ELSE IF Len(ds[t].Members) = 0 THEN <<"EmptyStruct">>
  ELSE LeavesFrom(ds, t, 1)
LeavesFrom(ds, t, i) ==
  IF i > Len(ds[t].Members) THEN <<>>
  ELSE Leaves(ds, ds[t].Members[i]) \o LeavesFrom(ds, t, i + 1)

\* the AAPCS64 definition: 1 to 4 leaves, all float32 or all float64
IsHFAOf(ds, t, kind) ==
  /\ Len(Leaves(ds, t)) \in 1..4
  /\ \A i \in 1..Len(Leaves(ds, t)) : Leaves(ds, t)[i] = kind
IsHFA(ds, t) == IsHFAOf(ds, t, "FloatType") \/ IsHFAOf(ds, t, "DoubleType")

\* the return of S was classified for AAPCS64, directly or by a compilation
ReturnClassifiedARM64 ==
  /\ platform = "unix_arm64"
  /\ \/ shape.op = "classifyReturn"
     \/ shape.op = "compile" /\ shape.role = "return" /\ shape.err = NoError

\* C15 as stated: an HFA of k elements, 1 <= k <= 4, is classified HFA{k}
\* with InXMM32 or InXMM64 by the element width, and never ViaPointer.
C15_FlagForEveryCount ==
  (ReturnClassifiedARM64 /\ IsHFA(descs0, "S"))
    => /\ shape.flags.hfa = Len(Leaves(descs0, "S"))
       /\ shape.flags.code = IF IsHFAOf(descs0, "S", "FloatType") THEN ReturnInXMM32
                             ELSE ReturnInXMM64
       /\ ~shape.flags.viaPointer

\* C15, amended: an HFA of k elements is classified InXMM32 (float32) or
\* InXMM64 (float64) and never ViaPointer, whatever its size; it carries the
\* flag HFA{k} when 2 <= k <= 4 and no HFA flag when k = 1.
C15_HFAReturnFlags ==
  (ReturnClassifiedARM64 /\ IsHFA(descs0, "S"))
    => /\ shape.flags.hfa = IF Len(Leaves(descs0, "S")) = 1 THEN 0
                            ELSE Len(Leaves(descs0, "S"))
       /\ shape.flags.code = IF IsHFAOf(descs0, "S", "FloatType") THEN ReturnInXMM32
                             ELSE ReturnInXMM64
       /\ ~shape.flags.viaPointer

\* a 32-byte HFA of four float64, nested, was classified
C15_Witness ==
  /\ ReturnClassifiedARM64
  /\ descs0["S"].Members = <<"Inner", "Inner">>
  /\ descs0["Inner"].Members = <<"Double", "Double">>
  /\ descs["S"].Size = 32
  /\ shape.flags = Flags(ReturnInXMM64, FALSE, 4)

\* S was classified as an argument for AAPCS64
ArgumentClassified == platform = "unix_arm64" /\ shape.op = "classifyArgument"

\* C16: a struct is found to be an HFA exactly when its leaves, descending
\* through nested structs, are 1 to 4 floating-point elements of one width
\* (so not with mixed widths, a leaf that is no float, an empty nested struct
\* or more than 4 leaves); as an argument an HFA takes as many FPRs as it has
\* leaves and no GPR, whatever its size.
C16_HFAExactly ==
  ArgumentClassified
    => /\ shape.isHFA <=> IsHFA(descs0, "S")
       /\ IsHFA(descs0, "S")
            => /\ shape.hfaCount = Len(Leaves(descs0, "S"))
               /\ shape.FPRCount = Len(Leaves(descs0, "S"))
               /\ shape.GPRCount = 0

\* a 32-byte struct of two nested pairs of float64 took four FPRs
C16_Witness ==
  /\ ArgumentClassified
  /\ descs0["S"].Members = <<"Inner", "Inner">>
  /\ descs0["Inner"].Members = <<"Double", "Double">>
  /\ descs["S"].Size = 32
  /\ shape.isHFA
  /\ shape.FPRCount = 4
  /\ shape.GPRCount = 0

\* the return of S, a struct of at least one byte, was classified for
\* System V AMD64, directly or by a compilation
ReturnClassifiedSysV ==
  /\ platform = "unix_amd64"
  /\ \/ shape.op = "classifyReturn"
     \/ shape.op = "compile" /\ shape.role = "return" /\ shape.err = NoError
  /\ descs["S"].Size >= 1

\* C17: under System V AMD64 a struct of 1 to 8 bytes is classified Int64
\* and every larger struct ViaPointer | Void.
C17_SmallStructInt64 ==
  ReturnClassifiedSysV
    => shape.flags = IF descs["S"].Size <= 8 THEN Flags(ReturnInt64, FALSE, 0)
                     ELSE Flags(ReturnVoid, TRUE, 0)

\* C17, the part that holds: a struct of exactly 8 bytes is classified Int64
\* and a struct of more than 8 bytes ViaPointer | Void
C17_EightOrLarger ==
  (ReturnClassifiedSysV /\ descs["S"].Size >= 8)
    => shape.flags = IF descs["S"].Size = 8 THEN Flags(ReturnInt64, FALSE, 0)
                     ELSE Flags(ReturnVoid, TRUE, 0)

\* a struct of three bytes was classified
C17_Witness ==
  /\ ReturnClassifiedSysV
  /\ descs0["S"].Members = <<"UInt8", "UInt8", "UInt8">>
  /\ descs["S"].Size = 3

\* what NewCallback panics with when it rejects its argument
RejectionPanics ==
  {"panic:ffi: callback function must not be nil",
   "panic:ffi: callback must be a function",
   "panic:unsupported callback signature"}

\* thread t called NewCallback in this step and the call was rejected
RejectedStep(t) ==
  /\ pc[t] = "idle"
  /\ opsLeft' = opsLeft - 1
  /\ pc'[t] = "idle"
  /\ outcome'[t].op = "register"
  /\ outcome'[t].how \in RejectionPanics

\* C18: a NewCallback that is rejected (nil, not a function, an unsupported
\* argument or return kind, more than one return value) panics without
\* touching the registry: count and every slot are as before, so the
\* registrations that succeed get the indices count0, count0 + 1, ... in
\* the order they are made, whatever was rejected in between.
C18_RejectedLeavesRegistry ==
  /\ [][\A t \in Threads : RejectedStep(t) => (funcs' = funcs /\ count' = count)]_vars
  /\ [](\A n \in 1..Len(regs) : regs[n].idx = count0 + n - 1)

\* one thread's NewCallback was rejected for a second return value and the
\* only registration made got the first free index
C18_Witness ==
  /\ \E t \in Threads :
       /\ outcome[t].op = "register"
       /\ outcome[t].how \in RejectionPanics
  /\ Len(regs) = 1
  /\ regs[1].idx = count0
  /\ count = count0 + 1

\* thread t's call went through the native function with every argument
\* value supplied
CalledWithAllArguments(t) ==
  /\ callOut[t].native
  /\ callOut[t].avalueLen = Len(cif.ArgTypes)

\* the 64-bit integer argument i of thread t's call reached the callee: the
\* words handed to the native call (the only outgoing storage Execute
\* fills) hold its value at position i or later
IntegerDelivered(t, i) ==
  \E k \in i..Len(callOut[t].regs.gpr) :
    callOut[t].regs.gpr[k] = Load(ArgAddr(t, i), 8)

\* C19: every argument is delivered: one beyond the registers of the
\* convention is passed on the outgoing stack, none is dropped.  Stated
\* for the 64-bit integer arguments.
C19_EveryArgumentDelivered ==
  \A t \in Threads :
    CalledWithAllArguments(t)
      => \A i \in 1..Len(cif.ArgTypes) :
           descs[cif.ArgTypes[i]].Kind = "UInt64Type" => IntegerDelivered(t, i)

\* C19, the part that holds: on Win64, where every argument is handed to
\* the system call wrapper, each is delivered
C19_DeliveredOnWin64 ==
  platform = "windows_amd64" => C19_EveryArgumentDelivered

\* a call with seven integer arguments was made under System V AMD64
C19_Witness ==
  /\ platform = "unix_amd64"
  /\ Len(cif.ArgTypes) = 7
  /\ \E t \in Threads :
       /\ CalledWithAllArguments(t)
       /\ Len(callOut[t].regs.gpr) = 6

\* what one compilation after the other gives for the shared struct s
SequentialCompile(s) ==
  PrepareCallInterface(DescTable0, NoCif, FALSE, DefaultCall, s, <<s>>)

AllCompiled == \A t \in Threads : comp[t].pc = "done"

\* C20: threads that compile concurrently with a shared struct descriptor
\* whose layout is unset all finish with the Flags and StackBytes of a
\* sequential compilation, and leave the descriptor with its Size and
\* Alignment, under every interleaving.
C20_AsSequential ==
  \A t \in Threads :
    LET seq == SequentialCompile(comp[t].struct)
    IN  /\ comp[t].pc = "done"
           => /\ comp[t].cif.Flags = seq.cif.Flags
              /\ comp[t].cif.StackBytes = seq.cif.StackBytes
        /\ AllCompiled
           => /\ descs[comp[t].struct].Size = seq.ds[comp[t].struct].Size
              /\ descs[comp[t].struct].Alignment = seq.ds[comp[t].struct].Alignment

\* C20, the part that holds: a thread that compiles while no other thread
\* has started gets the result of the sequential compilation
C20_AloneAsSequential ==
  \A t \in Threads :
    (comp[t].pc = "done" /\ \A u \in Threads \ {t} : comp[u].pc = "idle")
      => /\ comp[t].cif.Flags = SequentialCompile(comp[t].struct).cif.Flags
         /\ comp[t].cif.StackBytes = SequentialCompile(comp[t].struct).cif.StackBytes
         /\ descs[comp[t].struct] = SequentialCompile(comp[t].struct).ds[comp[t].struct]

\* both threads ran the layout of the shared struct and both have finished
C20_Witness ==
  /\ AllCompiled
  /\ \A t \in Threads : comp[t].laid


(***************************************************************************)
(* Claims C21..C30                                                         *)
(***************************************************************************)
\* the first PrepareCallInterface failed on an argument that is a struct
\* with a member of unknown kind
FailedOnBadMember ==
  /\ prep.first.err.type = "TypeValidationError"
  /\ \E i \in 1..Len(prep.argTypes) :
       /\ prep.argTypes[i] # NilDesc
       /\ DescTable0[prep.argTypes[i]].Kind = "StructType"
       /\ HasBadMember(DescTable0, prep.argTypes[i])

\* C21: a compilation that failed because a struct has a member of unknown
\* kind fails again, with the same error, when it is repeated with the same
\* descriptor: the failed attempt leaves nothing in the descriptor that
\* lets the retry succeed.
C21_FailureRepeatable ==
  (Recompiled /\ FailedOnBadMember)
    => /\ prep.how = "return"
       /\ prep.err = prep.first.err

\* C21, the part that holds: when the member of unknown kind is the first
\* member, the retry fails with the same error
C21_FirstMemberRepeatable ==
  (Recompiled /\ FailedOnBadMember /\ prep.argTypes = <<"BadMember">>)
    => /\ prep.how = "return"
       /\ prep.err = prep.first.err

\* the compilation of struct { uint8; unknown kind } was repeated
C21_Witness ==
  /\ Recompiled
  /\ FailedOnBadMember
  /\ prep.argTypes = <<"LateBad">>
  /\ descs["LateBad"].Size > 0


\* the mutex is held by a thread that is between Lock and Unlock of
\* NewCallback or of callbackWrap's fetch
HeldOnlyToFetch ==
  /\ mu # 0 => pc[mu] \in {"nc_check", "nc_store", "nc_incr", "nc_ret",
                           "cw_fetch", "cw_unlock"}
  /\ \A t \in Threads : pc[t] = "cw_call" => mu # t

\* C22: during a dispatch the registry mutex is held only while the closure
\* is fetched and never while the closure runs, so every registration and
\* dispatch that has started, a registration made by a closure during its
\* own dispatch included, finishes
C22_DispatchNeverBlocksOnClosure ==
  /\ []HeldOnlyToFetch
  /\ \A t \in Threads : (pc[t] # "idle") ~> (pc[t] = "idle")

\* a closure is registering a callback during its own dispatch while
\* another thread is inside its closure
C22_Witness ==
  \E t, u \in Threads :
    /\ t # u
    /\ t \in inClosure
    /\ pc[t] = "nc_check"
    /\ mu = t
    /\ pc[u] = "cw_call"


\* the register class of a parameter kind
ParamClass(k) == IF k \in {"float32", "float64"} THEN "float" ELSE "int"
ClassRegs(c) == IF c = "float" THEN numFloatRegs ELSE numIntRegs
\* how many parameters of the class of parameter i come before it
EarlierOfClass(ins, i) ==
  Cardinality({j \in 1..(i - 1) : ParamClass(ins[j]) = ParamClass(ins[i])})
InRegister(ins, i) == EarlierOfClass(ins, i) < ClassRegs(ParamClass(ins[i]))
\* the frame position the calling convention gives parameter i
ParamSlot(ins, i) ==
  IF InRegister(ins, i)
  THEN IF ParamClass(ins[i]) = "float"
       THEN EarlierOfClass(ins, i)
       ELSE numFloatRegs + EarlierOfClass(ins, i)
  ELSE numFloatRegs + numIntRegs +
       Cardinality({j \in 1..(i - 1) : ~InRegister(ins, j)})

\* C23: callbackWrap decodes parameter i from the register of its class
\* that its rank in the class selects, and once the registers of the class
\* are used up from the next slot of the one stack sequence both classes share
C23_DecodedInOrder ==
  dec.pc = "done" =>
    /\ Len(dec.args) = Len(dec.ins)
    /\ \A i \in 1..Len(dec.ins) :
         dec.args[i] = DecodeWord(dec.ins[i],
                                  FrameWord(dec.frame, ParamSlot(dec.ins, i)))

\* floating and integer parameters alternate and both classes have spilled:
\* the stack slots are taken in turn by the two classes
C23_Witness ==
  /\ dec.pc = "done"
  /\ platform = "unix_amd64"
  /\ \E i \in 1..(Len(dec.ins) - 2) :
       /\ ~InRegister(dec.ins, i)
       /\ ~InRegister(dec.ins, i + 1)
       /\ ~InRegister(dec.ins, i + 2)
       /\ ParamClass(dec.ins[i]) = "int"
       /\ ParamClass(dec.ins[i + 1]) = "float"
       /\ ParamClass(dec.ins[i + 2]) = "int"
       /\ dec.args[i + 2] = dec.args[i] + 2


\* the scalar fields of a laid-out descriptor with their byte offsets
RECURSIVE FieldsOf(_, _, _), FieldsFrom(_, _, _, _, _)
FieldsOf(ds, t, base) ==
  IF ds[t].Kind # "StructType" THEN {[off |-> base, kind |-> ds[t].Kind]}
  ELSE FieldsFrom(ds, t, 1, 0, base)
FieldsFrom(ds, t, i, offset, base) ==
  IF i > Len(ds[t].Members) THEN {}
  ELSE LET from(off) ==
             FieldsOf(ds, ds[t].Members[i], base + off) \cup
             FieldsFrom(ds, t, i + 1, off + ds[ds[t].Members[i]].Size, base)
       IN  from(alignOffset(offset, ds[ds[t].Members[i]].Alignment))

\* the register an 8-byte chunk of S takes under the rule of chunks
ChunkFields(c) == {f \in FieldsOf(descs, "S", 0) : f.off \div 8 = c}
ChunkRegister(c) ==
  IF ChunkFields(c) = {} THEN "none"
  ELSE IF \A f \in ChunkFields(c) : f.kind \in {"FloatType", "DoubleType"}
  THEN "fpr" ELSE "gpr"
ChunkRegisters(r) == Cardinality({c \in {0, 1} : ChunkRegister(c) = r})

\* Execute has staged S, a struct of valid members that is no HFA and has
\* at most 16 bytes, as the first argument
StagedSmallStruct ==
  /\ platform = "unix_arm64"
  /\ shape.op = "execute"
  /\ shape.regs0 = NoRegs
  /\ ~descs0["S"].MembersNil
  /\ ~HasBadMember(descs0, "S")
  /\ ~IsHFA(descs0, "S")
  /\ descs["S"].Size <= 16
  /\ FieldsOf(descs, "S", 0) # {}

\* C24: a non-HFA struct argument of at most 16 bytes takes one register for
\* each 8-byte chunk of its layout, an FPR when every field of the chunk is
\* floating-point and a GPR otherwise.
C24_OneRegisterPerChunk ==
  StagedSmallStruct
    => /\ Len(shape.staged.gpr) = ChunkRegisters("gpr")
       /\ Len(shape.staged.fpr) = ChunkRegisters("fpr")

\* C24 on the structs whose members the packing handles (no generic int, no
\* empty nested struct) and in which no float32 follows a float32: there
\* the registers are those of the chunks
C24_WithoutAdjacentFloats ==
  (/\ StagedSmallStruct
   /\ \A i \in 1..Len(Leaves(descs0, "S")) :
        Leaves(descs0, "S")[i] \notin {"IntType", "EmptyStruct"}
   /\ \A i \in 1..(Len(Leaves(descs0, "S")) - 1) :
        ~(Leaves(descs0, "S")[i] = "FloatType" /\ Leaves(descs0, "S")[i + 1] = "FloatType"))
    => /\ Len(shape.staged.gpr) = ChunkRegisters("gpr")
       /\ Len(shape.staged.fpr) = ChunkRegisters("fpr")

\* struct { double; float; float } was staged: 16 bytes in three FPRs
C24_Witness ==
  /\ StagedSmallStruct
  /\ descs0["S"].Members = <<"Double", "Float", "Float">>
  /\ descs["S"].Size = 16
  /\ Len(shape.staged.fpr) = 3
  /\ Len(shape.staged.gpr) = 0


\* Execute has staged S, a struct of valid members of at most 16 bytes,
\* after whatever the earlier arguments took
StagedSmall ==
  /\ platform = "unix_arm64"
  /\ shape.op = "execute"
  /\ ~descs0["S"].MembersNil
  /\ ~HasBadMember(descs0, "S")
  /\ descs["S"].Size <= 16

\* the counts of countStructRegUsage are the slots placeStructRegisters emits
CountsArePlaced(cnt, placed) ==
  /\ Len(placed.regs.gpr) = cnt.intCount
  /\ Len(placed.regs.fpr) = cnt.floatCount
\* the struct went to registers whole, or by reference with nothing else
\* added to the registers
WholeOrByReference(placed) ==
  \/ placed.ok /\ shape.staged = placed.regs
  \/ shape.staged = PushGpr(shape.regs0, numIntRegsARM64, StructAddr)
GenericIntLeaf ==
  \E i \in 1..Len(Leaves(descs0, "S")) : Leaves(descs0, "S")[i] = "IntType"

\* C30: for a struct of
\* at most 16 bytes countStructRegUsage returns the numbers of integer and
\* floating slots placeStructRegisters emits, so Execute never leaves
\* registers filled with a part of a struct it then passes by reference.
C30_CountsMatchPlacement ==
  StagedSmall
    => /\ CountsArePlaced(countStructRegUsage(descs, "S"),
                          placeStructRegisters(descs, StructAddr, "S", NoRegs))
       /\ WholeOrByReference(placeStructRegisters(descs, StructAddr, "S",
                                                  shape.regs0))

\* C30 on the structs without a member of the generic int kind: the two
\* walks agree and no register is left half-used
C30_WithoutGenericInt ==
  (StagedSmall /\ ~GenericIntLeaf)
    => /\ CountsArePlaced(countStructRegUsage(descs, "S"),
                          placeStructRegisters(descs, StructAddr, "S", NoRegs))
       /\ WholeOrByReference(placeStructRegisters(descs, StructAddr, "S",
                                                  shape.regs0))

\* struct { double; int } was staged: the double is in an FPR and the
\* struct's address in a GPR
C30_Witness ==
  /\ StagedSmall
  /\ descs0["S"].Members = <<"Double", "Int">>
  /\ shape.regs0 = NoRegs
  /\ Len(shape.staged.fpr) = 1
  /\ shape.staged.gpr = <<StructAddr>>


\* thread t's call returned through the native function into a result
\* buffer, with a compiled return flag of a floating register
ReturnedInXMM(t) ==
  /\ callOut[t].how = "return"
  /\ callOut[t].native
  /\ callOut[t].err = NoError
  /\ ~callOut[t].rvalueNil
  /\ ~cif.Flags.viaPointer
  /\ cif.Flags.code \in {ReturnInXMM32, ReturnInXMM64}
\* bytes 0 .. n-1 of thread t's result buffer hold the low n bytes of v
BufferHolds(t, n, v) ==
  \A k \in 0..(n - 1) : rbuf[t][k] = (v \div Range(k)) % Range(1)
\* the first floating return slot of the native function of the model
FirstFloatSlot(t) == NativeEcho(callOut[t].regs).fret[1]
FilledFromFloatSlot(t) ==
  IF cif.Flags.code = ReturnInXMM32 THEN BufferHolds(t, 4, FirstFloatSlot(t))
  ELSE BufferHolds(t, 8, FirstFloatSlot(t))

\* C25: whenever the compiled return flag is InXMM32 or InXMM64, a struct
\* that is a single-element HFA included, the result buffer is filled from
\* the first floating return slot (4 bytes for InXMM32, 8 for InXMM64) and
\* not from a general-purpose return register.
C25_FloatFlagReadsFloatSlot ==
  \A t \in Threads : ReturnedInXMM(t) => FilledFromFloatSlot(t)

\* C25 on the System V and AAPCS64 engines when the return descriptor is a
\* scalar float or double, or a struct compiled with an HFA flag
C25_ScalarOrFlaggedHFA ==
  \A t \in Threads :
    (/\ ReturnedInXMM(t)
     /\ platform # "windows_amd64"
     /\ \/ descs[cif.ReturnType].Kind \in {"FloatType", "DoubleType"}
        \/ cif.Flags.hfa # 0)
      => FilledFromFloatSlot(t)

\* AAPCS64: a call returning struct { struct { float } } has returned and
\* its result buffer holds the 8 bytes of X0
C25_Witness ==
  \E t \in Threads :
    /\ ReturnedInXMM(t)
    /\ platform = "unix_arm64"
    /\ cif.ReturnType = "S"
    /\ cif.Flags = Flags(ReturnInXMM32, FALSE, 0)
    /\ callOut[t].avalueLen = 2
    /\ BufferHolds(t, 8, NativeEcho(callOut[t].regs).retLo)
    /\ ~BufferHolds(t, 4, FirstFloatSlot(t))


SignedNarrowKinds == {"SInt8Type", "SInt16Type", "SInt32Type"}
UnsignedNarrowKinds == {"UInt8Type", "UInt16Type", "UInt32Type"}
NarrowBytes(k) ==
  CASE k \in {"SInt8Type", "UInt8Type"} -> 1
    [] k \in {"SInt16Type", "UInt16Type"} -> 2
    [] OTHER -> 4
\* the 64-bit word an integer of kind k with the bytes w widens to
WidenedByKind(k, w) ==
  IF k \in SignedNarrowKinds THEN ToUintptr(SignExt(w, NarrowBytes(k)) + Modulus)
  ELSE ZeroExt(w, NarrowBytes(k))

\* the argument thread t's Execute has just staged, when its descriptor is
\* an integer narrower than 64 bits (0 otherwise)
JustStagedNarrow(t) ==
  LET i == call[t].idx - 1
  IN  IF /\ pc[t] = "ex_stage"
         /\ i >= 1
         /\ i <= call[t].avalueLen
         /\ descs[cif.ArgTypes[i]].Kind \in SignedNarrowKinds \cup UnsignedNarrowKinds
      THEN i ELSE 0
StagedAsWidened(t, i) ==
  /\ Len(call[t].regs.gpr) > 0
  /\ call[t].regs.gpr[Len(call[t].regs.gpr)] =
       WidenedByKind(descs[cif.ArgTypes[i]].Kind,
                     Load(ArgAddr(t, i), NarrowBytes(descs[cif.ArgTypes[i]].Kind)))

\* C26: an integer argument narrower than 64 bits is widened by its kind
\* before it is staged: SInt8, SInt16, SInt32 sign-extended, UInt8, UInt16,
\* UInt32 zero-extended, under every convention.
C26_WidenedByKind ==
  \A t \in Threads : JustStagedNarrow(t) # 0 => StagedAsWidened(t, JustStagedNarrow(t))

\* C26 under AAPCS64, whose engine has a case for every narrow kind
C26_WidenedOnAAPCS64 == platform = "unix_arm64" => C26_WidenedByKind

\* Win64: a negative SInt16 argument has been staged with its upper bits
\* zero
C26_Witness ==
  \E t \in Threads :
    /\ platform = "windows_amd64"
    /\ JustStagedNarrow(t) = 1
    /\ descs[cif.ArgTypes[1]].Kind = "SInt16Type"
    /\ SignExt(Load(ArgAddr(t, 1), 2), 2) < 0
    /\ call[t].regs.gpr = <<ZeroExt(Load(ArgAddr(t, 1), 2), 2)>>
    /\ ~StagedAsWidened(t, 1)


\* thread t's call reached handleReturn with a result buffer and a compiled
\* return that is not made through a pointer
ReturnDemarshalled(t) ==
  /\ callOut[t].how = "return"
  /\ callOut[t].native
  /\ ~callOut[t].rvalueNil
  /\ ~cif.Flags.viaPointer

\* C27: for every return descriptor PrepareCallInterface accepts, the
\* generic int kind included, whose flags lack ViaPointer, demarshalling into
\* a non-nil result buffer succeeds and never yields UnsupportedReturnType.
C27_AcceptedReturnDemarshals ==
  \A t \in Threads : ReturnDemarshalled(t) => callOut[t].err = NoError

\* C27 on the return descriptors of every kind but the generic int
C27_ExceptGenericInt ==
  \A t \in Threads :
    (ReturnDemarshalled(t) /\ descs[cif.ReturnType].Kind # "IntType")
      => callOut[t].err = NoError

\* a call compiled with the return descriptor of kind IntType has returned
\* UnsupportedReturnType
C27_Witness ==
  \E t \in Threads :
    /\ ReturnDemarshalled(t)
    /\ descs[cif.ReturnType].Kind = "IntType"
    /\ callOut[t].err = ErrUnsupportedReturnType
    /\ rbuf[t] = FreshBuf


\* PrepareCallInterface has returned an error (each call of the model is
\* made on a zero-valued CallInterface)
PrepareFailed ==
  /\ prep.pc = "idle"
  /\ prep.how = "return"
  /\ prep.err # NoError
  /\ ~prep.cifNil

\* C28: when PrepareCallInterface returns an error the caller's
\* CallInterface is as it was before the call: Convention, ArgCount,
\* ArgTypes, ReturnType, Flags and StackBytes are unchanged.
C28_FailureLeavesInterface == PrepareFailed => cif = NoCif

\* C28 for the errors found before the first store: a nil return type and
\* a calling convention out of range
C28_EarlyFailureLeavesInterface ==
  (/\ PrepareFailed
   /\ prep.err.type \in {"InvalidCallInterfaceError", "CallingConventionError"})
    => cif = NoCif

\* a compilation with a return descriptor of unknown kind has failed and
\* the CallInterface holds the arguments of the failed call
C28_Witness ==
  /\ PrepareFailed
  /\ prep.returnType = "BadKind"
  /\ prep.argTypes = <<"Pointer">>
  /\ prep.err.type = "TypeValidationError"
  /\ cif.ReturnType = "BadKind"
  /\ cif.ArgCount = 1
  /\ cif.Convention # 0


\* a thread that is outside NewCallback, or waiting in Lock, or past the
\* Unlock of callbackWrap does not hold the mutex
ReleasedOnExit ==
  \A t \in Threads : pc[t] \in {"idle", "nc_lock", "cw_lock", "cw_call"} => mu # t
\* the last registration attempt of some thread ended in the capacity panic
AfterLimitPanic == \E u \in Threads : outcome[u].how = LimitPanic

\* C29: no path through NewCallback exits with the registry mutex held, the
\* capacity panic included; so after a capacity panic every later
\* registration attempt and dispatch acquires the mutex and completes.
C29_PanicReleasesMutex ==
  /\ []ReleasedOnExit
  /\ \A t \in Threads :
       /\ (AfterLimitPanic /\ pc[t] \in {"nc_lock", "cw_lock"}) ~> (mu = t)
       /\ (AfterLimitPanic /\ pc[t] # "idle") ~> (pc[t] = "idle")

\* after a capacity panic of one thread another thread has acquired the
\* mutex for a dispatch
C29_Witness ==
  \E t, u \in Threads :
    /\ t # u
    /\ outcome[u].how = LimitPanic
    /\ pc[u] = "idle"
    /\ pc[t] = "cw_fetch"
    /\ mu = t

=============================================================================
